---- MODULE Spec2Model ----
(***************************************************************************)
(* A state-machine model of ScaLAPACKMatrix (source/lac/scalapack.cc): a   *)
(* dense matrix distributed block-cyclically over a 2-D process grid.      *)
(* Every process of the communicator holds its own copy of the object;     *)
(* a collective operation is one action in which every process runs the    *)
(* operation's code on its own copy.                                       *)
(***************************************************************************)
EXTENDS Integers, Naturals, Sequences, FiniteSets, TLC

VARIABLES
  n_mpi_processes,      \* size of the MPI communicator of the process grid
  have_parallel_hdf5,   \* the build has H5_HAVE_PARALLEL
  n_process_rows,       \* ProcessGrid::n_process_rows
  n_process_columns,    \* ProcessGrid::n_process_columns
  n_rows,               \* ScaLAPACKMatrix::n_rows
  n_columns,            \* ScaLAPACKMatrix::n_columns
  row_block_size,       \* ScaLAPACKMatrix::row_block_size
  column_block_size,    \* ScaLAPACKMatrix::column_block_size
  state,                \* [process -> LAPACKSupport::State]
  property,             \* [process -> LAPACKSupport::Property]
  values,               \* [process -> local TransposeTable buffer]
  assigned,             \* the replicated FullMatrix last assigned with operator=
  dense,                \* [process -> FullMatrix argument of copy_to]
  file,                 \* the HDF5 archive written by save
  ev,                   \* [process -> vector returned by the last operation]
  last,                 \* record of the last operation: what ran, on what, how it ended
  steps,                \* number of operations performed so far
  lq,                   \* the layout query of the layout specification
  res,                  \* [process -> scalar returned by the last operation]
  matB,                 \* a second matrix object (argument B, dest, U), or none
  matC,                 \* a third matrix object (argument C, VT), or none
  pc,                   \* [process or thread -> its position inside the operation followed step by step]
  trace,                \* the calls made so far inside that operation, in order
  work,                 \* ScaLAPACKMatrix::work of the process followed: its size and work[0]
  iwork,                \* ScaLAPACKMatrix::iwork of the process followed: its size and iwork[0]
  mutex,                \* ScaLAPACKMatrix::mutex of the process followed: the thread holding it, or NoThread
  triangulation,        \* the Triangulation a CellDataTransfer is attached to: active cells and their flags
  transfer              \* the CellDataTransfer object, with the vectors of its last unpack

vars == <<n_mpi_processes, have_parallel_hdf5, triangulation, transfer, pc, trace, work, iwork, mutex, n_process_rows, n_process_columns,
          n_rows, n_columns, row_block_size, column_block_size,
          state, property, values, assigned, dense, file, ev, last, steps, lq,
          res, matB, matC>>

\* ---------------------------------------------------------------- bounds
MaxProcs == 2
MaxDim == 2
MaxSteps == 3
MaxLayoutDim == 7
MaxLayoutProcs == 4
\* the largest matrix the eigenvalues of the identity are asked of
MaxIdentityDim == 5

\* ---------------------------------------------------------------- numbers
\* A matrix entry is an exact rational <<numerator, denominator>> in lowest
\* terms with a positive denominator.  JUNK is an entry whose value the code
\* leaves unspecified (memory a kernel has destroyed or never wrote).
JUNK == <<0, 0>>

Abs(x) == IF x < 0 THEN -x ELSE x

RECURSIVE GCD(_, _)
GCD(a, b) == IF b = 0 THEN a ELSE GCD(b, a % b)

Rat(n, d) ==
  IF d = 0 THEN JUNK
  ELSE LET g == GCD(Abs(n), Abs(d))
           s == IF d < 0 THEN -1 ELSE 1
       IN  <<(s * n) \div g, (s * d) \div g>>

Num(k) == <<k, 1>>
RZero == Num(0)
ROne == Num(1)

IsJunk(x) == x[2] = 0

RAdd(x, y) == IF IsJunk(x) \/ IsJunk(y) THEN JUNK
              ELSE Rat(x[1] * y[2] + y[1] * x[2], x[2] * y[2])
RNeg(x) == IF IsJunk(x) THEN JUNK ELSE <<-x[1], x[2]>>
RSub(x, y) == RAdd(x, RNeg(y))
RMul(x, y) == IF IsJunk(x) \/ IsJunk(y) THEN JUNK
              ELSE Rat(x[1] * y[1], x[2] * y[2])
RDiv(x, y) == IF IsJunk(x) \/ IsJunk(y) THEN JUNK
              ELSE Rat(x[1] * y[2], x[2] * y[1])
RPositive(x) == ~IsJunk(x) /\ x[1] > 0

IsSquare(k) == \E r \in 0..k : r * r = k
ISqrt(k) == CHOOSE r \in 0..k : r * r = k
\* the square root of a positive rational, where it is rational
HasRSqrt(x) == RPositive(x) /\ IsSquare(x[1]) /\ IsSquare(x[2])
RSqrt(x) == <<ISqrt(x[1]), ISqrt(x[2])>>

\* the sum of f[k] over k in lo..hi
RECURSIVE RSum(_, _, _)
RSum(f, lo, hi) == IF hi < lo THEN RZero ELSE RAdd(RSum(f, lo, hi - 1), f[hi])

Min(a, b) == IF a < b THEN a ELSE b
Max(a, b) == IF a < b THEN b ELSE a

\* ---------------------------------------------------------------- block-cyclic layout
\* The ScaLAPACK TOOLS routines the matrix calls.  Indices are 1-based as in
\* Fortran; process coordinates are 0-based.
numroc_mut(n, nb, iproc, isrcproc, nprocs) ==
  LET mydist    == (nprocs + iproc - isrcproc) % nprocs
      nblocks   == n \div nb
      base      == (nblocks \div nprocs) * nb
      extrablks == nblocks % nprocs
  IN  IF mydist <= extrablks THEN base + nb
      ELSE base

numroc(n, nb, iproc, isrcproc, nprocs) ==
  LET mydist    == (nprocs + iproc - isrcproc) % nprocs
      nblocks   == n \div nb
      base      == (nblocks \div nprocs) * nb
      extrablks == nblocks % nprocs
  IN  IF mydist < extrablks THEN base + nb
      ELSE IF mydist = extrablks THEN base + (n % nb)
      ELSE base

indxl2g(indxloc, nb, iproc, isrcproc, nprocs) ==
  nprocs * nb * ((indxloc - 1) \div nb) + ((indxloc - 1) % nb)
    + ((nprocs + iproc - isrcproc) % nprocs) * nb + 1

indxg2p(indxglob, nb, iproc, isrcproc, nprocs) ==
  (isrcproc + (indxglob - 1) \div nb) % nprocs

indxg2l(indxglob, nb, iproc, isrcproc, nprocs) ==
  nb * ((indxglob - 1) \div (nb * nprocs)) + ((indxglob - 1) % nb) + 1

first_process_row == 0
first_process_column == 0

\* ---------------------------------------------------------------- process grid
\* A layout is what fixes where the entries of one distributed matrix live:
\* the grid it is bound to and its shape and block sizes.
Layout(R, C, m, n, mb, nb) ==
  [R |-> R, C |-> C, n_rows |-> m, n_columns |-> n,
   row_block_size |-> mb, column_block_size |-> nb]

Procs == 0 .. (n_mpi_processes - 1)

\* ProcessGrid: the first R*C ranks of the communicator form the grid, dealt
\* row by row; the others are inactive.
mpi_process_is_active(L, p) == p < L.R * L.C
this_process_row(L, p) == IF mpi_process_is_active(L, p) THEN p \div L.C ELSE -1
this_process_column(L, p) == IF mpi_process_is_active(L, p) THEN p % L.C ELSE -1
RankAt(L, prow, pcol) == prow * L.C + pcol

\* ---------------------------------------------------------------- local data
n_local_rows(L, p) ==
  IF mpi_process_is_active(L, p)
  THEN numroc(L.n_rows, L.row_block_size, this_process_row(L, p),
              first_process_row, L.R)
  ELSE -1

n_local_columns(L, p) ==
  IF mpi_process_is_active(L, p)
  THEN numroc(L.n_columns, L.column_block_size, this_process_column(L, p),
              first_process_column, L.C)
  ELSE -1

\* descriptor[8], the local leading dimension
lld(L, p) == Max(1, n_local_rows(L, p))

global_row_mut(L, p, loc_row) ==
  indxl2g(loc_row + 1, L.row_block_size, this_process_row(L, p),
          first_process_row, L.R)

global_row(L, p, loc_row) ==
  indxl2g(loc_row + 1, L.row_block_size, this_process_row(L, p),
          first_process_row, L.R) - 1

global_column(L, p, loc_column) ==
  indxl2g(loc_column + 1, L.column_block_size, this_process_column(L, p),
          first_process_column, L.C) - 1

\* TransposeTable: m x n entries stored column by column in one array.
Table(m, n, v) == [m |-> m, n |-> n, v |-> v]
EmptyTable == Table(0, 0, <<>>)
reinit(m, n) == Table(m, n, [k \in 1 .. (m * n) |-> RZero])
TableSize(t) == Len(t.v)

\* local_el(i,j): a read outside the array yields an unspecified entry
local_el(t, i, j) ==
  LET k == j * t.m + i + 1
  IN  IF k \in 1 .. Len(t.v) THEN t.v[k] ELSE JUNK

\* the table a freshly constructed matrix of layout L holds on process p
ConstructedValues(L, p) ==
  IF mpi_process_is_active(L, p)
  THEN reinit(n_local_rows(L, p), n_local_columns(L, p))
  ELSE EmptyTable

\* A dense (FullMatrix or global) matrix: [m, n, el: <<i,j>> -> entry], 0-based
Idx(m, n) == (0 .. (m - 1)) \X (0 .. (n - 1))
Full(m, n, el) == [m |-> m, n |-> n, el |-> el]

\* ---------------------------------------------------------------- kernel view of the data
\* A ScaLAPACK kernel addresses the local array through the descriptor:
\* local entry (li,lj) is at offset li + lj*lld.
KernelRead(L, p, t, li, lj) ==
  LET k == li + lj * lld(L, p) + 1
  IN  IF k \in 1 .. Len(t.v) THEN t.v[k] ELSE JUNK

OwnerOf(L, i, j) ==
  RankAt(L, indxg2p(i + 1, L.row_block_size, 0, first_process_row, L.R),
            indxg2p(j + 1, L.column_block_size, 0, first_process_column, L.C))

\* the global matrix the kernels see in the local arrays vals
Gather(L, vals) ==
  [ij \in Idx(L.n_rows, L.n_columns) |->
     KernelRead(L, OwnerOf(L, ij[1], ij[2]), vals[OwnerOf(L, ij[1], ij[2])],
                indxg2l(ij[1] + 1, L.row_block_size, 0, first_process_row, L.R) - 1,
                indxg2l(ij[2] + 1, L.column_block_size, 0, first_process_column, L.C) - 1)]

\* the local array of process p after a kernel has stored the global matrix G
ScatterTo(L, p, t, G) ==
  IF ~mpi_process_is_active(L, p) THEN t
  ELSE Table(t.m, t.n,
         [k \in 1 .. Len(t.v) |->
            LET li == (k - 1) % lld(L, p)
                lj == (k - 1) \div lld(L, p)
            IN  IF li < n_local_rows(L, p) /\ lj < n_local_columns(L, p)
                THEN G[<<global_row(L, p, li), global_column(L, p, lj)>>]
                ELSE t.v[k]])

Scatter(L, vals, G) == [p \in DOMAIN vals |-> ScatterTo(L, p, vals[p], G)]

\* ---------------------------------------------------------------- numerical kernels
\* The kernels are external (ScaLAPACK); they are modelled by what they
\* compute on the global matrix, in exact arithmetic.  uplo is always 'L'
\* (the constructor sets it), so only the lower triangle is read and written.
RLess(x, y) == x[1] * y[2] < y[1] * x[2]

\* ppotrf: Cholesky factor L of the lower triangle, column by column from
\* column j on.  info = j+1 if the leading minor of order j+1 is not positive
\* definite; exact = FALSE if the factor is irrational (outside the model's
\* numbers).
RECURSIVE PotrfFrom(_, _, _)
PotrfFrom(A, n, j) ==
  IF j = n THEN [info |-> 0, a |-> A, exact |-> TRUE]
  ELSE
    LET pivot == RSub(A[<<j, j>>],
                      RSum([k \in 0 .. (j - 1) |-> RMul(A[<<j, k>>], A[<<j, k>>])],
                           0, j - 1))
    IN  IF ~RPositive(pivot) THEN [info |-> j + 1, a |-> A, exact |-> TRUE]
        ELSE IF ~HasRSqrt(pivot) THEN [info |-> 0, a |-> A, exact |-> FALSE]
        ELSE
          LET ljj == RSqrt(pivot)
              A1 == [ij \in DOMAIN A |->
                       IF ij[2] = j /\ ij[1] = j THEN ljj
                       ELSE IF ij[2] = j /\ ij[1] > j
                       THEN RDiv(RSub(A[ij],
                                      RSum([k \in 0 .. (j - 1) |->
                                              RMul(A[<<ij[1], k>>], A[<<j, k>>])],
                                           0, j - 1)),
                                 ljj)
                       ELSE A[ij]]
          IN  PotrfFrom(A1, n, j + 1)

ppotrf(A, n) == PotrfFrom(A, n, 0)

\* the inverse of the lower triangular L, row by row from row i on
RECURSIVE TrInvFrom(_, _, _, _)
TrInvFrom(L, n, i, M) ==
  IF i = n THEN M
  ELSE
    LET M1 == [ij \in DOMAIN M |->
                 IF ij[1] # i THEN M[ij]
                 ELSE IF ij[2] = i THEN RDiv(ROne, L[<<i, i>>])
                 ELSE IF ij[2] < i
                 THEN RNeg(RDiv(RSum([k \in ij[2] .. (i - 1) |->
                                        RMul(L[<<i, k>>], M[<<k, ij[2]>>])],
                                     ij[2], i - 1),
                                L[<<i, i>>]))
                 ELSE RZero]
    IN  TrInvFrom(L, n, i + 1, M1)

\* ppotri: the lower triangle of inv(L * L^T), where L is the lower triangle
\* of A, whatever it holds.  info = i+1 if L(i,i) is exactly zero.
ppotri(A, n) ==
  IF \E i \in 0 .. (n - 1) : A[<<i, i>>] = RZero
  THEN [info |-> 1 + CHOOSE i \in 0 .. (n - 1) :
                     /\ A[<<i, i>>] = RZero
                     /\ \A k \in 0 .. (i - 1) : A[<<k, k>>] # RZero,
        a |-> A]
  ELSE
    LET M == TrInvFrom(A, n, 0, [ij \in Idx(n, n) |-> RZero])
    IN  [info |-> 0,
         a |-> [ij \in DOMAIN A |->
                  IF ij \in Idx(n, n) /\ ij[1] >= ij[2]
                  THEN RSum([k \in ij[1] .. (n - 1) |->
                               RMul(M[<<k, ij[1]>>], M[<<k, ij[2]>>])],
                            ij[1], n - 1)
                  ELSE A[ij]]]

\* psyev / psyevx are modelled exactly where the lower triangle of the
\* leading n x n block is diagonal: the eigenvalues are the diagonal entries
\* in ascending order and the eigenvectors the matching unit vectors.
EigExact(A, n) ==
  /\ Idx(n, n) \subseteq DOMAIN A
  /\ \A ij \in Idx(n, n) :
       /\ ij[1] > ij[2] => A[ij] = RZero
       /\ ij[1] = ij[2] => ~IsJunk(A[ij])

\* the index of the k-th smallest diagonal entry (ties by position)
EigOrder(A, n) ==
  [k \in 0 .. (n - 1) |->
     CHOOSE i \in 0 .. (n - 1) :
       Cardinality({j \in 0 .. (n - 1) :
                      \/ RLess(A[<<j, j>>], A[<<i, i>>])
                      \/ (A[<<j, j>>] = A[<<i, i>>] /\ j < i)}) = k]

\* all eigenvalues, ascending
EigAll(A, n) ==
  LET order == EigOrder(A, n)
  IN  [k \in 1 .. n |-> A[<<order[k - 1], order[k - 1]>>]]

\* the positions (1-based, ascending order) of the eigenvalues a call selects:
\* range 'A' all, 'I' the positions il..iu, 'V' the values in (vl, vu]
EigSelected(A, n, range, il, iu, vl, vu) ==
  IF range = "A" THEN 1 .. n
  ELSE IF range = "I" THEN il .. iu
  ELSE LET w == EigAll(A, n)
       IN  {k \in 1 .. n : RLess(vl, w[k]) /\ ~RLess(vu, w[k])}

\* the k-th member (1-based) of a set of integers in ascending order
KthOf(S, k) == CHOOSE x \in S : Cardinality({y \in S : y < x}) = k - 1

\* the matrix psyev leaves in A: the lower triangle of the block is destroyed
EigDestroyed(A, n) ==
  [ij \in DOMAIN A |->
     IF ij \in Idx(n, n) /\ ij[1] >= ij[2] THEN JUNK ELSE A[ij]]

\* the eigenvector matrix: column k (0-based) holds the k-th selected
\* eigenvector, columns past the selection keep what Z held
EigVectors(A, n, sel, Z) ==
  LET order == EigOrder(A, n)
  IN  [ij \in DOMAIN Z |->
         IF ij[2] < Cardinality(sel)
         THEN IF ij[1] = order[KthOf(sel, ij[2] + 1) - 1] THEN ROne ELSE RZero
         ELSE Z[ij]]

\* plange / plansy: the one norm 'O' (largest column sum), the infinity norm
\* 'I' (largest row sum) and the Frobenius norm 'F' of the m x n matrix S;
\* exact = FALSE if the Frobenius norm is irrational.
RAbs(x) == IF IsJunk(x) THEN JUNK ELSE <<Abs(x[1]), x[2]>>
RMaxOf(S) ==
  IF \E x \in S : IsJunk(x) THEN JUNK
  ELSE CHOOSE x \in S : \A y \in S : ~RLess(x, y)

NormOf(type, S, m, n) ==
  LET colsum(j) == RSum([i \in 0 .. (m - 1) |-> RAbs(S[<<i, j>>])], 0, m - 1)
      rowsum(i) == RSum([j \in 0 .. (n - 1) |-> RAbs(S[<<i, j>>])], 0, n - 1)
      square(k) == RMul(S[<<k % m, k \div m>>], S[<<k % m, k \div m>>])
      squares   == RSum([k \in 0 .. (m * n - 1) |-> square(k)], 0, m * n - 1)
  IN  IF type = "O" THEN [exact |-> TRUE, value |-> RMaxOf({colsum(j) : j \in 0 .. (n - 1)})]
      ELSE IF type = "I"
      THEN [exact |-> TRUE, value |-> RMaxOf({rowsum(i) : i \in 0 .. (m - 1)})]
      ELSE IF IsJunk(squares) \/ squares = RZero THEN [exact |-> TRUE, value |-> squares]
      ELSE IF HasRSqrt(squares) THEN [exact |-> TRUE, value |-> RSqrt(squares)]
      ELSE [exact |-> FALSE, value |-> JUNK]

plange(type, m, n, A) == NormOf(type, A, m, n)

\* the symmetric matrix of order n that the lower triangle of A stands for
SymmetricFromLower(A, n) ==
  [ij \in Idx(n, n) |-> A[<<Max(ij[1], ij[2]), Min(ij[1], ij[2])>>]]

plansy(type, n, A) ==
  IF Idx(n, n) \subseteq DOMAIN A
  THEN NormOf(type, SymmetricFromLower(A, n), n, n)
  ELSE [exact |-> TRUE, value |-> JUNK]

\* ppocon: the reciprocal condition number 1 / (a_norm * |inv(L L^T)|_1) from
\* the Cholesky factor L in the lower triangle of A; 0 if L is singular
ppocon(n, A, a_norm) ==
  IF ~(Idx(n, n) \subseteq DOMAIN A) \/ RLess(a_norm, RZero)
  THEN [info |-> -1, rcond |-> RZero]
  ELSE LET inv == ppotri(A, n)
           ainvnm == NormOf("O", SymmetricFromLower(inv.a, n), n, n).value
       IN  IF inv.info # 0 \/ a_norm = RZero \/ ainvnm = RZero
           THEN [info |-> 0, rcond |-> RZero]
           ELSE [info |-> 0, rcond |-> RDiv(RDiv(ROne, ainvnm), a_norm)]

\* pgesvd is modelled exactly where the m x n matrix A is diagonal: the
\* singular values are the absolute diagonal entries in descending order, the
\* left and right singular vectors the matching (signed) unit vectors.
SvdExact(A, m, n) ==
  \A ij \in Idx(m, n) : ~IsJunk(A[ij]) /\ (ij[1] # ij[2] => A[ij] = RZero)

\* the index of the k-th largest absolute diagonal entry (ties by position)
SvdOrder(A, m, n) ==
  [k \in 0 .. (Min(m, n) - 1) |->
     CHOOSE i \in 0 .. (Min(m, n) - 1) :
       Cardinality({j \in 0 .. (Min(m, n) - 1) :
                      \/ RLess(RAbs(A[<<i, i>>]), RAbs(A[<<j, j>>]))
                      \/ (RAbs(A[<<j, j>>]) = RAbs(A[<<i, i>>]) /\ j < i)}) = k]

SingularValues(A, m, n) ==
  LET order == SvdOrder(A, m, n)
  IN  [k \in 1 .. Min(m, n) |-> RAbs(A[<<order[k - 1], order[k - 1]>>])]

\* the first min(m,n) columns of U; the other columns keep what Z held
LeftVectors(A, m, n, Z) ==
  [ij \in DOMAIN Z |->
     IF ij[2] < Min(m, n)
     THEN IF ij[1] # SvdOrder(A, m, n)[ij[2]] THEN RZero
          ELSE IF RLess(A[<<ij[1], ij[1]>>], RZero) THEN RNeg(ROne) ELSE ROne
     ELSE Z[ij]]

\* the first min(m,n) rows of V^T; the other rows keep what Z held
RightVectors(A, m, n, Z) ==
  [ij \in DOMAIN Z |->
     IF ij[1] < Min(m, n)
     THEN IF ij[2] = SvdOrder(A, m, n)[ij[1]] THEN ROne ELSE RZero
     ELSE Z[ij]]

\* what a kernel that destroys its operand leaves in it
Destroyed(A) == [ij \in DOMAIN A |-> JUNK]

\* a PBLAS kernel does not read an operand whose scalar is zero
Scaled(scalar, x) == IF scalar = RZero THEN RZero ELSE RMul(scalar, x)

\* op(B)(i,j) for the global matrix B
Op(trans, B, i, j) == IF trans THEN B[<<j, i>>] ELSE B[<<i, j>>]

\* pgeadd(trans, m, n, alpha, A, beta, C): the m x n matrix
\* beta * C + alpha * op(A), which replaces C
pgeadd(trans, m, n, alpha, A, beta, C) ==
  [ij \in DOMAIN C |->
     IF ij \in Idx(m, n)
     THEN RAdd(Scaled(beta, C[ij]), Scaled(alpha, Op(trans, A, ij[1], ij[2])))
     ELSE C[ij]]

\* pgemm(transa, transb, m, n, k, alpha, A, B, beta, C): the m x n matrix
\* alpha * op(A) * op(B) + beta * C, which replaces C
pgemm(transa, transb, m, n, k, alpha, A, B, beta, C) ==
  [ij \in DOMAIN C |->
     IF ij \in Idx(m, n)
     THEN RAdd(Scaled(alpha,
                      RSum([l \in 0 .. (k - 1) |->
                              RMul(Op(transa, A, ij[1], l), Op(transb, B, l, ij[2]))],
                           0, k - 1)),
               Scaled(beta, C[ij]))
     ELSE C[ij]]

\* pgels is modelled exactly where A is square and diagonal with no zero on
\* the diagonal: op(A) * X = B has the solution X(i,j) = B(i,j) / A(i,i),
\* which replaces B.  Elsewhere the solution is not computed here and the
\* entries of B are left unspecified.  A holds factorization intermediates.
LsqExact(A, m, n) ==
  /\ m = n
  /\ \A ij \in Idx(m, n) :
       /\ ~IsJunk(A[ij])
       /\ ij[1] # ij[2] => A[ij] = RZero
       /\ ij[1] = ij[2] => A[ij] # RZero

pgels(trans, m, n, A, B) ==
  [a |-> Destroyed(A),
   b |-> IF LsqExact(A, m, n)
         THEN [ij \in DOMAIN B |-> RDiv(B[ij], A[<<ij[1], ij[1]>>])]
         ELSE Destroyed(B)]

\* ---------------------------------------------------------------- the matrix object
States == {"matrix", "inverse_matrix", "lu", "cholesky", "eigenvalues", "svd",
           "inverse_svd", "unusable"}
Properties == {"general", "symmetric", "lower_triangular", "upper_triangular",
               "diagonal", "hessenberg"}

\* the layout of the matrix under test
This == Layout(n_process_rows, n_process_columns, n_rows, n_columns,
               row_block_size, column_block_size)

ActiveProcs == {p \in Procs : mpi_process_is_active(This, p)}
InactiveProcs == Procs \ ActiveProcs

\* How an operation ended on one process: "ok"; "rejected", a failed Assert
\* on entry, nothing done; "threw", a failed AssertThrow part-way; "blocked",
\* waiting in a collective call the other processes never enter.
Outcomes == {"ok", "rejected", "threw", "blocked", "aborted"}

\* what is remembered of the operation before the last one
Brief(r) == [op |-> r.op, pre_state |-> r.pre_state[0],
             ok |-> \A p \in DOMAIN r.outcome : r.outcome[p] = "ok"]

Record(op, arg, outcome, calls) ==
  [op |-> op, arg |-> arg, pre_state |-> state, pre_property |-> property,
   outcome |-> outcome, calls |-> calls, prev |-> Brief(last)]

All(x) == [p \in Procs |-> x]
NoCalls == All(<<>>)

\* a failed collective is fatal: no operation follows it
Halted == \E p \in Procs : last.outcome[p] \in {"threw", "blocked", "aborted"}
CanStep == ~Halted /\ steps < MaxSteps

NoDense == Full(0, 0, <<>>)
\* no second or third matrix object exists (a null pointer where one is optional)
NoMatrix == [present |-> FALSE]

\* Another ScaLAPACKMatrix object: the ProcessGrid object it is bound to
\* (grid, with its communicator comm and shape R x C), its shape and block
\* sizes, and on every process its state, property and local array.
MatrixObject(grid, comm, R, C, m, n, mb, nb, st, prop, vals) ==
  [present |-> TRUE, grid |-> grid, comm |-> comm, R |-> R, C |-> C,
   n_rows |-> m, n_columns |-> n, row_block_size |-> mb, column_block_size |-> nb,
   state |-> st, property |-> prop, values |-> vals]

LayoutOf(M) == Layout(M.R, M.C, M.n_rows, M.n_columns, M.row_block_size, M.column_block_size)

\* the ProcessGrid object and the communicator of the matrix under test
ThisGrid == "grid"
ThisComm == "communicator"
\* another ProcessGrid object of the same shape on the same communicator
OtherGrid == "grid_2"
\* a duplicate of the communicator: the same processes, not MPI_IDENT
OtherComm == "communicator_2"

\* a further matrix as its constructor leaves it, on the grid object g
\* a further matrix as its constructor leaves it, on the grid object g of
\* shape R x C over the communicator comm
MadeOn(g, comm, R, C, m, n, mb, nb) ==
  MatrixObject(g, comm, R, C, m, n, mb, nb, All("matrix"), All("general"),
               [p \in Procs |-> ConstructedValues(Layout(R, C, m, n, mb, nb), p)])

\* the same on a grid object of the shape of the grid of the matrix under test
Made(g, m, n, mb, nb) ==
  MadeOn(g, ThisComm, n_process_rows, n_process_columns, m, n, mb, nb)

\* the shapes (n_rows, n_columns, row_block_size, column_block_size) the
\* constructor accepts
Shapes ==
  {s \in (1 .. MaxDim) \X (1 .. MaxDim) \X (1 .. MaxDim) \X (1 .. MaxDim) :
     s[3] <= s[1] /\ s[4] <= s[2]}

NoFile == [written |-> FALSE]
LayoutIdle == [n |-> 1, nb |-> 1, nprocs |-> 1, g |-> 0, owner |-> 0, loc |-> 0, back |-> 0]

\* the replicated dense matrices the model assigns: all entries distinct; a
\* symmetric positive definite matrix with a rational Cholesky factor; the
\* identity
Fdistinct(m, n) == Full(m, n, [ij \in Idx(m, n) |-> Num(ij[1] * n + ij[2] + 1)])
Fspd(n) == Full(n, n, [ij \in Idx(n, n) |->
                         IF ij[1] = ij[2] THEN Num(4 + ij[1])
                         ELSE Num(2 + Min(ij[1], ij[2]))])
Fident(n) == Full(n, n, [ij \in Idx(n, n) |-> IF ij[1] = ij[2] THEN ROne ELSE RZero])
Inputs(m, n) == {Fdistinct(m, n)} \cup (IF m = n THEN {Fspd(n), Fident(n)} ELSE {})

ConstructorProperties == {"general", "symmetric"}
\* the properties the model passes to set_property
SettableProperties == {"general", "symmetric", "lower_triangular", "upper_triangular"}

GridShapes(P) == {rc \in (1 .. P) \X (1 .. P) : rc[1] * rc[2] <= P}

\* ScaLAPACKMatrix::ScaLAPACKMatrix: the state after construction
Constructed(R, C, m, n, mb, nb, prop) ==
  /\ n_process_rows' = R
  /\ n_process_columns' = C
  /\ n_rows' = m
  /\ n_columns' = n
  /\ row_block_size' = mb
  /\ column_block_size' = nb
  /\ state' = All("matrix")
  /\ property' = All(prop)
  /\ values' = [p \in Procs |-> ConstructedValues(Layout(R, C, m, n, mb, nb), p)]

\* The scratch members of the object (work, iwork, mutex) are followed in the
\* workspace specification, where an operation is taken call by call.  The
\* other specifications take an operation as one step, inside which the lock
\* is taken and released and the buffers are used by that operation alone.
NoThread == 0
Buffer(size, front) == [size |-> size, front |-> front]
ScratchIdle ==
  /\ work = Buffer(0, 0)
  /\ iwork = Buffer(0, 0)
  /\ mutex = NoThread

\* Cell data transfer is followed in its own specification; elsewhere there is
\* no triangulation and no transfer object.
NoTransfer == [outcome |-> "none"]
TransferIdle ==
  /\ triangulation = NoTransfer
  /\ transfer = NoTransfer

\* the matrix under test after construction
InitThis ==
  /\ n_mpi_processes \in 1 .. MaxProcs
  /\ \E rc \in GridShapes(n_mpi_processes) :
       /\ n_process_rows = rc[1]
       /\ n_process_columns = rc[2]
  /\ n_rows \in 1 .. MaxDim
  /\ n_columns \in 1 .. MaxDim
  /\ row_block_size \in 1 .. n_rows
  /\ column_block_size \in 1 .. n_columns
  /\ state = All("matrix")
  /\ \E prop \in ConstructorProperties : property = All(prop)
  /\ values = [p \in Procs |-> ConstructedValues(This, p)]
  /\ assigned = NoDense
  /\ dense = All(NoDense)
  /\ file = NoFile
  /\ ev = All(<<>>)
  /\ last = [op |-> "construct", arg |-> <<>>, pre_state |-> All("matrix"),
             pre_property |-> property, outcome |-> All("ok"), calls |-> NoCalls,
             prev |-> [op |-> "none", pre_state |-> "matrix", ok |-> TRUE]]
  /\ steps = 0
  /\ lq = LayoutIdle
  /\ res = All(RZero)
  /\ pc = <<>>
  /\ trace = <<>>
  /\ ScratchIdle
  /\ TransferIdle

InitObject ==
  /\ InitThis
  /\ matB = NoMatrix
  /\ matC = NoMatrix

\* the build without parallel HDF5 (the switch only matters to save and load)
Init ==
  /\ have_parallel_hdf5 = FALSE
  /\ InitObject

\* A new matrix object replaces the one under test (same communicator).
Construct ==
  /\ ~Halted
  /\ \E rc \in GridShapes(n_mpi_processes), m \in 1 .. MaxDim, n \in 1 .. MaxDim,
        prop \in ConstructorProperties :
       \E mb \in 1 .. m, nb \in 1 .. n :
         /\ Constructed(rc[1], rc[2], m, n, mb, nb, prop)
         /\ last' = Record("construct", <<>>, All("ok"), NoCalls)
  /\ ev' = All(<<>>)
  /\ UNCHANGED <<res, matB, matC, n_mpi_processes, have_parallel_hdf5, triangulation, transfer, pc, trace, work, iwork, mutex,
                 assigned, dense, file, steps, lq>>

\* ScaLAPACKMatrix::set_property
set_property ==
  /\ CanStep
  /\ \E prop \in SettableProperties :
       /\ property' = All(prop)
       /\ last' = Record("set_property", <<prop>>, All("ok"), NoCalls)
  /\ steps' = steps + 1
  /\ UNCHANGED <<res, matB, matC, n_mpi_processes, have_parallel_hdf5, triangulation, transfer, pc, trace, work, iwork, mutex,
                 n_process_rows, n_process_columns,
                 n_rows, n_columns, row_block_size, column_block_size,
                 state, values, assigned, dense, file, ev, lq>>

\* the table after local_el(i,j) = F(global_row(i), global_column(j)) for
\* every local (i,j); a write outside the array is lost
AssignLocal(L, p, t, F) ==
  Table(t.m, t.n,
    [k \in 1 .. Len(t.v) |->
       LET i == (k - 1) % t.m
           j == (k - 1) \div t.m
       IN  IF i < n_local_rows(L, p) /\ j < n_local_columns(L, p)
           THEN F.el[<<global_row(L, p, i), global_column(L, p, j)>>]
           ELSE t.v[k]])

\* the further matrix M after operator=(F)
Assigned(M, F) ==
  [M EXCEPT !.values = [p \in Procs |->
                          IF mpi_process_is_active(LayoutOf(M), p)
                          THEN AssignLocal(LayoutOf(M), p, M.values[p], F)
                          ELSE M.values[p]]]

\* ScaLAPACKMatrix::operator=(const FullMatrix &)
assign ==
  /\ CanStep
  /\ \E F \in Inputs(n_rows, n_columns) :
       /\ values' = [p \in Procs |->
                       IF mpi_process_is_active(This, p)
                       THEN AssignLocal(This, p, values[p], F)
                       ELSE values[p]]
       /\ assigned' = F
       /\ last' = Record("assign", <<>>, All("ok"), NoCalls)
  /\ state' = All("matrix")
  /\ steps' = steps + 1
  /\ UNCHANGED <<res, matB, matC, n_mpi_processes, have_parallel_hdf5, triangulation, transfer, pc, trace, work, iwork, mutex,
                 n_process_rows, n_process_columns,
                 n_rows, n_columns, row_block_size, column_block_size,
                 property, dense, file, ev, lq>>

\* what process p contributes to the sum in copy_to(FullMatrix): an active
\* process zeroes its argument and writes its local entries at their global
\* position, an inactive process contributes its argument as it is
DenseContribution(L, p, t, prior) ==
  IF mpi_process_is_active(L, p)
  THEN [ij \in Idx(L.n_rows, L.n_columns) |->
          IF \E i \in 0 .. (n_local_rows(L, p) - 1),
                j \in 0 .. (n_local_columns(L, p) - 1) :
               <<global_row(L, p, i), global_column(L, p, j)>> = ij
          THEN LET lij == CHOOSE x \in (0 .. (n_local_rows(L, p) - 1))
                                       \X (0 .. (n_local_columns(L, p) - 1)) :
                            <<global_row(L, p, x[1]), global_column(L, p, x[2])>> = ij
               IN  local_el(t, lij[1], lij[2])
          ELSE RZero]
  ELSE prior.el

\* Utilities::MPI::sum over the communicator
RECURSIVE SumOver(_, _, _)
SumOver(contrib, ij, p) ==
  IF p < 0 THEN RZero ELSE RAdd(SumOver(contrib, ij, p - 1), contrib[p][ij])

MirrorFill_mut(el, n, prop, st) ==
  [ij \in DOMAIN el |->
     IF prop \in {"lower_triangular", "upper_triangular"} /\ ij[2] # ij[1]
     THEN (IF ij[2] > ij[1] THEN RZero ELSE el[ij])
     ELSE el[ij]]
\* the triangular fill at the end of copy_to(FullMatrix), on a square matrix
MirrorFill(el, n, prop, st) ==
  [ij \in DOMAIN el |->
     IF prop = "lower_triangular" /\ ij[2] > ij[1]
     THEN (IF st = "inverse_matrix" THEN el[<<ij[2], ij[1]>>] ELSE RZero)
     ELSE IF prop = "upper_triangular" /\ ij[2] < ij[1]
     THEN (IF st = "inverse_matrix" THEN el[<<ij[2], ij[1]>>] ELSE RZero)
     ELSE el[ij]]

\* the FullMatrix every process p holds after copy_to, given what each
\* process passed in
CopiedDense(L, vals, prior, prop, st) ==
  LET contrib == [p \in Procs |-> DenseContribution(L, p, vals[p], prior[p])]
      summed  == [ij \in Idx(L.n_rows, L.n_columns) |->
                    SumOver(contrib, ij, n_mpi_processes - 1)]
  IN  [p \in Procs |->
         Full(L.n_rows, L.n_columns, MirrorFill(summed, L.n_rows, prop[p], st[p]))]

\* what a caller's FullMatrix may hold before copy_to: zeros (fresh) or the
\* entries of an earlier use
StaleEntry == Num(7)
PriorKinds == {"zero", "stale"}
PriorDense(kind, m, n) ==
  Full(m, n, [ij \in Idx(m, n) |-> IF kind = "zero" THEN RZero ELSE StaleEntry])

\* ScaLAPACKMatrix::copy_to(FullMatrix &), on a square matrix or one that is
\* not triangular
copy_to_dense ==
  /\ CanStep
  /\ n_rows = n_columns
       \/ \A p \in Procs : property[p] \notin {"lower_triangular", "upper_triangular"}
  /\ \E kind \in PriorKinds :
       /\ dense' = CopiedDense(This, values, All(PriorDense(kind, n_rows, n_columns)),
                               property, state)
       /\ last' = Record("copy_to_dense", <<kind>>, All("ok"), NoCalls)
  /\ steps' = steps + 1
  /\ UNCHANGED <<res, matB, matC, n_mpi_processes, have_parallel_hdf5, triangulation, transfer, pc, trace, work, iwork, mutex,
                 n_process_rows, n_process_columns,
                 n_rows, n_columns, row_block_size, column_block_size,
                 state, property, values, assigned, file, ev, lq>>

\* ---------------------------------------------------------------- factorization and inversion
\* every process holds the same state and property when an operation starts
StateNow == state[0]
PropertyNow == property[0]

\* a kernel of order n needs the leading n x n block to lie inside the matrix;
\* otherwise it reports an illegal argument
KernelFits(n) == n <= n_rows /\ n <= n_columns

KernelCalls(names) == [p \in Procs |-> IF p \in ActiveProcs THEN names ELSE <<>>]
ActiveOutcome(x) == [p \in Procs |-> IF p \in ActiveProcs THEN x ELSE "ok"]

\* the constructor's uplo('L'), and the property a factorization leaves
uplo == "L"
FactorProperty_mut(u) == IF u = "L" THEN "upper_triangular" ELSE "lower_triangular"
FactorProperty(u) == IF u = "L" THEN "lower_triangular" ELSE "upper_triangular"

\* the processes that reach the assignments to property and state, which
\* follow the block guarded by grid->mpi_process_is_active: every process but
\* an active one that left the block with the exception of AssertThrow
ReachesAssignment_mut(p, info) == p \in ActiveProcs /\ info = 0

ReachesAssignment(p, info) == ~(p \in ActiveProcs /\ info # 0)

\* ScaLAPACKMatrix::compute_cholesky_factorization
compute_cholesky_factorization ==
  /\ CanStep
  /\ IF n_columns # n_rows
     THEN /\ last' = Record("compute_cholesky_factorization", <<>>, All("rejected"), NoCalls)
          /\ UNCHANGED <<state, property, values>>
     ELSE LET c == ppotrf(Gather(This, values), n_columns)
          IN  /\ c.exact
              /\ values' = Scatter(This, values, c.a)
              /\ property' = [p \in Procs |-> IF ReachesAssignment(p, c.info)
                                              THEN FactorProperty(uplo) ELSE property[p]]
              /\ state' = [p \in Procs |-> IF ReachesAssignment(p, c.info)
                                           THEN "cholesky" ELSE state[p]]
              /\ last' = Record("compute_cholesky_factorization", <<>>,
                                ActiveOutcome(IF c.info = 0 THEN "ok" ELSE "threw"),
                                KernelCalls(<<"ppotrf">>))
  /\ steps' = steps + 1
  /\ UNCHANGED <<res, matB, matC, n_mpi_processes, have_parallel_hdf5, triangulation, transfer, pc, trace, work, iwork, mutex,
                 n_process_rows, n_process_columns,
                 n_rows, n_columns, row_block_size, column_block_size,
                 assigned, dense, file, ev, lq>>

\* the inverse kernel as invert() calls it, on the global matrix G
InverseKernel(G) ==
  IF KernelFits(n_columns) THEN ppotri(G, n_columns) ELSE [info |-> -1, a |-> G]

\* invert() factors first exactly when the matrix is in state matrix
FactorsFirst_mut(st) == FALSE
FactorsFirst(st) == st = "matrix"

\* ScaLAPACKMatrix::invert
invert ==
  /\ CanStep
  /\ IF FactorsFirst(StateNow) /\ n_columns # n_rows
     THEN \* the Assert of the nested compute_cholesky_factorization()
          /\ last' = Record("invert", <<>>, All("rejected"), NoCalls)
          /\ UNCHANGED <<state, property, values>>
     ELSE IF FactorsFirst(StateNow)
     THEN LET c == ppotrf(Gather(This, values), n_columns)
              r == InverseKernel(c.a)
          IN  /\ c.exact
              /\ IF c.info # 0
                 THEN \* the active processes leave with the exception of ppotrf
                      /\ values' = Scatter(This, values, c.a)
                      /\ property' = [p \in Procs |-> IF p \in ActiveProcs
                                                      THEN property[p] ELSE FactorProperty(uplo)]
                      /\ state' = [p \in Procs |-> IF p \in ActiveProcs
                                                   THEN state[p] ELSE "inverse_matrix"]
                      /\ last' = Record("invert", <<>>, ActiveOutcome("threw"),
                                        KernelCalls(<<"ppotrf">>))
                 ELSE /\ values' = Scatter(This, values, r.a)
                      /\ property' = All(FactorProperty(uplo))
                      /\ state' = [p \in Procs |-> IF p \in ActiveProcs /\ r.info # 0
                                                   THEN "cholesky" ELSE "inverse_matrix"]
                      /\ last' = Record("invert", <<>>,
                                        ActiveOutcome(IF r.info = 0 THEN "ok" ELSE "threw"),
                                        KernelCalls(<<"ppotrf", "ppotri">>))
     ELSE LET r == InverseKernel(Gather(This, values))
          IN  /\ values' = Scatter(This, values, r.a)
              /\ property' = property
              /\ state' = [p \in Procs |-> IF p \in ActiveProcs /\ r.info # 0
                                           THEN state[p] ELSE "inverse_matrix"]
              /\ last' = Record("invert", <<>>,
                                ActiveOutcome(IF r.info = 0 THEN "ok" ELSE "threw"),
                                KernelCalls(<<"ppotri">>))
  /\ steps' = steps + 1
  /\ UNCHANGED <<res, matB, matC, n_mpi_processes, have_parallel_hdf5, triangulation, transfer, pc, trace, work, iwork, mutex,
                 n_process_rows, n_process_columns,
                 n_rows, n_columns, row_block_size, column_block_size,
                 assigned, dense, file, ev, lq>>

\* ---------------------------------------------------------------- eigendecomposition
NaN == JUNK
invalid_unsigned_int == -1

\* the scratch matrix eigenpairs_symmetric constructs
EigenvectorsLayout(compute_eigenvectors) ==
  IF compute_eigenvectors
  THEN Layout(n_process_rows, n_process_columns, n_rows, n_rows,
              row_block_size, row_block_size)
  ELSE Layout(n_process_rows, n_process_columns, n_process_rows, n_process_columns, 1, 1)

\* ProcessGrid::send_to_inactive: the inactive processes wait for the value
\* an active process sends; they stay blocked if the active ones never send
InactiveOutcome(active_outcome) ==
  [p \in Procs |-> IF p \in ActiveProcs THEN active_outcome
                   ELSE IF active_outcome = "ok" THEN "ok" ELSE "blocked"]

\* ProcessGrid::send_to_inactive: an inactive process leaves with the value
\* an active process sent, an active process with its own
send_to_inactive(p, own, sent) == IF p \in ActiveProcs THEN own ELSE sent

\* the vector eigenpairs_symmetric returns on process p, where the kernel
\* found the m eigenvalues w: ev(n_rows) is cut to m entries on an active
\* process; an inactive one receives m, resizes ev to m and receives ev
EigenvaluesOn_mut(p, m, w) ==
  IF p \in ActiveProcs THEN w
  ELSE [k \in 1 .. n_rows |-> IF k <= m THEN w[k] ELSE RZero]

EigenvaluesOn(p, m, w) ==
  LET sized == [k \in 1 .. send_to_inactive(p, m, m) |-> RZero]
  IN  send_to_inactive(p, w, [k \in 1 .. Len(sized) |-> w[k]])

\* the legality checks at the head of eigenpairs_symmetric
EigenLegal_mut(st, prop) == st = "matrix"
EigenLegal(st, prop) == st = "matrix" /\ prop = "symmetric"

\* the state eigenpairs_symmetric leaves
EigenState_mut(compute_eigenvectors) == "eigenvalues"
EigenState(compute_eigenvectors) ==
  IF compute_eigenvectors THEN "eigenvalues" ELSE "unusable"

\* eigenpairs_symmetric(compute_eigenvectors, eigenvalue_idx, eigenvalue_limits):
\* entry names the public function called, fail the kernel call whose status
\* is not zero (1 the workspace query, 2 the computation, 0 none)
EigenCore(entry, arg, compute_eigenvectors, eigenvalue_idx, eigenvalue_limits, fail) ==
  LET use_values  == ~(IsJunk(eigenvalue_limits[1]) \/ IsJunk(eigenvalue_limits[2]))
      use_indices == ~(eigenvalue_idx[1] = invalid_unsigned_int
                       \/ eigenvalue_idx[2] = invalid_unsigned_int)
      range  == IF ~use_indices THEN (IF ~use_values THEN "A" ELSE "V") ELSE "I"
      kernel == IF range = "A" THEN "psyev" ELSE "psyevx"
      il == Min(eigenvalue_idx[1], eigenvalue_idx[2]) + 1
      iu == Max(eigenvalue_idx[1], eigenvalue_idx[2]) + 1
      vl == IF RLess(eigenvalue_limits[2], eigenvalue_limits[1])
            THEN eigenvalue_limits[2] ELSE eigenvalue_limits[1]
      vu == IF RLess(eigenvalue_limits[2], eigenvalue_limits[1])
            THEN eigenvalue_limits[1] ELSE eigenvalue_limits[2]
      G   == Gather(This, values)
      Ls  == EigenvectorsLayout(compute_eigenvectors)
      sel == EigSelected(G, n_rows, range, il, iu, vl, vu)
      m   == Cardinality(sel)
      Z0  == [ij \in Idx(Ls.n_rows, Ls.n_columns) |-> RZero]
      scratch == [p \in Procs |-> ConstructedValues(Ls, p)]
  IN
  IF ~EigenLegal(StateNow, PropertyNow) \/ (use_values /\ use_indices)
  THEN /\ last' = Record(entry, arg, All("rejected"), NoCalls)
       /\ UNCHANGED <<state, property, values, ev>>
  ELSE IF fail # 0
  THEN /\ last' = Record(entry, arg, InactiveOutcome("threw"),
                         KernelCalls(IF fail = 1 THEN <<kernel>> ELSE <<kernel, kernel>>))
       /\ values' = IF fail = 1 THEN values
                    ELSE Scatter(This, values, [ij \in DOMAIN G |-> JUNK])
       /\ UNCHANGED <<state, property, ev>>
  ELSE /\ KernelFits(n_rows)
       /\ EigExact(G, n_rows)
       /\ last' = Record(entry, arg, All("ok"), KernelCalls(<<kernel, kernel>>))
       /\ values' = IF compute_eigenvectors
                    THEN \* values.swap(eigenvectors->values): the storage of the
                         \* scratch matrix under the table sizes of this matrix
                         [p \in Procs |->
                            IF p \in ActiveProcs
                            THEN Table(values[p].m, values[p].n,
                                       ScatterTo(Ls, p, scratch[p],
                                                 EigVectors(G, n_rows, sel, Z0)).v)
                            ELSE values[p]]
                    ELSE Scatter(This, values, EigDestroyed(G, n_rows))
       /\ ev' = LET w == EigAll(G, n_rows)
                IN  [p \in Procs |->
                       EigenvaluesOn(p, m, [k \in 1 .. m |-> w[KthOf(sel, k)]])]
       /\ property' = IF compute_eigenvectors THEN All("general") ELSE property
       /\ state' = All(EigenState(compute_eigenvectors))

\* what the callers pass: index limits (one past the end included), value
\* limits (NaN included)
IndexLimits == (0 .. n_rows) \X (0 .. n_rows)
ValueLimits == {<<RZero, ROne>>, <<Num(4), ROne>>, <<NaN, ROne>>, <<ROne, NaN>>}

EigenFrame ==
  /\ steps' = steps + 1
  /\ UNCHANGED <<res, matB, matC, n_mpi_processes, have_parallel_hdf5, triangulation, transfer, pc, trace, work, iwork, mutex,
                 n_process_rows, n_process_columns,
                 n_rows, n_columns, row_block_size, column_block_size,
                 assigned, dense, file, lq>>

\* ScaLAPACKMatrix::eigenpairs_symmetric(compute_eigenvectors)
eigenpairs_symmetric ==
  /\ CanStep
  /\ \E compute_eigenvectors \in BOOLEAN, fail \in 0 .. 2 :
       EigenCore("eigenpairs_symmetric", <<compute_eigenvectors>>, compute_eigenvectors,
                 <<invalid_unsigned_int, invalid_unsigned_int>>, <<NaN, NaN>>, fail)
  /\ EigenFrame

\* eigenpairs_symmetric_by_index: the sorted limits name the whole spectrum
AllRequested_mut(idx) == TRUE
AllRequested(idx) == idx[1] = 0 /\ idx[2] = n_rows - 1

\* ScaLAPACKMatrix::eigenpairs_symmetric_by_index
eigenpairs_symmetric_by_index ==
  /\ CanStep
  /\ \E index_limits \in IndexLimits, compute_eigenvectors \in BOOLEAN, fail \in 0 .. 2 :
       LET idx == <<Min(index_limits[1], index_limits[2]),
                    Max(index_limits[1], index_limits[2])>>
           arg == <<compute_eigenvectors, index_limits>>
       IN  IF ~(index_limits[1] < n_rows /\ index_limits[2] < n_rows)
           THEN /\ last' = Record("eigenpairs_symmetric_by_index", arg,
                                  All("rejected"), NoCalls)
                /\ UNCHANGED <<state, property, values, ev>>
           ELSE IF AllRequested(idx)
           THEN EigenCore("eigenpairs_symmetric_by_index", arg, compute_eigenvectors,
                          <<invalid_unsigned_int, invalid_unsigned_int>>, <<NaN, NaN>>, fail)
           ELSE EigenCore("eigenpairs_symmetric_by_index", arg, compute_eigenvectors,
                          idx, <<NaN, NaN>>, fail)
  /\ EigenFrame

\* ScaLAPACKMatrix::eigenpairs_symmetric_by_value
eigenpairs_symmetric_by_value ==
  /\ CanStep
  /\ \E value_limits \in ValueLimits, compute_eigenvectors \in BOOLEAN, fail \in 0 .. 2 :
       LET arg == <<compute_eigenvectors, value_limits>>
       IN  IF IsJunk(value_limits[1]) \/ IsJunk(value_limits[2])
           THEN /\ last' = Record("eigenpairs_symmetric_by_value", arg,
                                  All("rejected"), NoCalls)
                /\ UNCHANGED <<state, property, values, ev>>
           ELSE EigenCore("eigenpairs_symmetric_by_value", arg, compute_eigenvectors,
                          <<invalid_unsigned_int, invalid_unsigned_int>>, value_limits, fail)
  /\ EigenFrame

\* ---------------------------------------------------------------- norms and condition number
\* the scalar a reducing operation returns on process p: res = 0, the kernel
\* result on an active process, then grid->send_to_inactive(&res)
ReducedOn_mut(p, value) == IF p \in ActiveProcs THEN value ELSE RZero
ReducedOn(p, value) ==
  send_to_inactive(p, IF p \in ActiveProcs THEN value ELSE RZero, value)

\* the Assert of norm_general / norm_symmetric on the state
NormLegal_mut(st) == st = "matrix"
NormLegal(st) == st = "matrix" \/ st = "inverse_matrix"

\* l1_norm / linfty_norm / frobenius_norm dispatch on the property
NormKernel(prop) == IF prop = "symmetric" THEN "plansy" ELSE "plange"

\* l1_norm, linfty_norm, frobenius_norm: name is the function called, type
\* the norm it asks the kernel for
NormCall(name, type) ==
  /\ CanStep
  /\ LET G == Gather(This, values)
         kernel == NormKernel(PropertyNow)
         r == IF kernel = "plansy" THEN plansy(type, n_columns, G)
              ELSE plange(type, n_rows, n_columns, G)
     IN  IF ~NormLegal(StateNow)
         THEN /\ last' = Record(name, <<type>>, All("rejected"), NoCalls)
              /\ UNCHANGED res
         ELSE /\ r.exact
              /\ res' = [p \in Procs |-> ReducedOn(p, r.value)]
              /\ last' = Record(name, <<type>>, All("ok"), KernelCalls(<<kernel>>))
  /\ steps' = steps + 1
  /\ UNCHANGED <<matB, matC, n_mpi_processes, have_parallel_hdf5, triangulation, transfer, pc, trace, work, iwork, mutex,
                 n_process_rows, n_process_columns,
                 n_rows, n_columns, row_block_size, column_block_size,
                 state, property, values, assigned, dense, file, ev, lq>>

\* ScaLAPACKMatrix::l1_norm
l1_norm == NormCall("l1_norm", "O")

\* ScaLAPACKMatrix::linfty_norm
linfty_norm == NormCall("linfty_norm", "I")

\* ScaLAPACKMatrix::frobenius_norm
frobenius_norm == NormCall("frobenius_norm", "F")

\* the norms a caller passes to reciprocal_condition_number
GivenNorms == {ROne, Num(4)}

\* ScaLAPACKMatrix::reciprocal_condition_number(a_norm); fail names the
\* kernel call whose status is not zero (1 the workspace query, 2 the run)
reciprocal_condition_number ==
  /\ CanStep
  /\ \E a_norm \in GivenNorms, fail \in 0 .. 2 :
       LET r == ppocon(n_columns, Gather(This, values), a_norm)
       IN  IF StateNow # "cholesky"
           THEN /\ last' = Record("reciprocal_condition_number", <<a_norm>>,
                                  All("rejected"), NoCalls)
                /\ UNCHANGED res
           ELSE IF fail # 0 \/ r.info # 0
           THEN /\ last' = Record("reciprocal_condition_number", <<a_norm>>,
                                  InactiveOutcome("threw"),
                                  KernelCalls(IF fail = 2 THEN <<"ppocon", "ppocon">>
                                              ELSE <<"ppocon">>))
                /\ UNCHANGED res
           ELSE /\ res' = [p \in Procs |-> ReducedOn(p, r.rcond)]
                /\ last' = Record("reciprocal_condition_number", <<a_norm>>, All("ok"),
                                  KernelCalls(<<"ppocon", "ppocon">>))
  /\ steps' = steps + 1
  /\ UNCHANGED <<matB, matC, n_mpi_processes, have_parallel_hdf5, triangulation, transfer, pc, trace, work, iwork, mutex,
                 n_process_rows, n_process_columns,
                 n_rows, n_columns, row_block_size, column_block_size,
                 state, property, values, assigned, dense, file, ev, lq>>

\* ---------------------------------------------------------------- singular value decomposition
\* the Asserts of compute_SVD on a supplied U (dim = n_rows) or VT (dim = n_columns)
SvdOutputLegal(M, dim) ==
  /\ dim = M.n_rows
  /\ M.n_rows = M.n_columns
  /\ row_block_size = M.row_block_size
  /\ column_block_size = M.column_block_size
  /\ M.grid = ThisGrid

\* the Asserts at the head of compute_SVD
SvdLegal_mut(st, mb, nb) == st = "matrix"
SvdLegal(st, mb, nb) == st = "matrix" /\ mb = nb

\* the vector compute_SVD returns on process p: sv(min(n_rows, n_columns)),
\* filled by the kernel on an active process and by send_to_inactive elsewhere
SingularValuesOn(p, w) ==
  send_to_inactive(p, w, [k \in 1 .. Min(n_rows, n_columns) |-> w[k]])

\* what the kernel stores in a supplied output matrix M
SvdOutput(M, Z) == [M EXCEPT !.values = Scatter(LayoutOf(M), M.values, Z)]

\* ScaLAPACKMatrix::compute_SVD(U, VT): U is the second matrix object or
\* null, VT the third or null; fail as in eigenpairs_symmetric
compute_SVD ==
  /\ CanStep
  /\ \E with_U \in {FALSE, matB.present}, with_VT \in {FALSE, matC.present},
        fail \in 0 .. 2 :
       LET G == Gather(This, values)
           arg == <<with_U, with_VT>>
           calls == KernelCalls(IF fail = 1 THEN <<"pgesvd">> ELSE <<"pgesvd", "pgesvd">>)
       IN  IF \/ ~SvdLegal(StateNow, row_block_size, column_block_size)
              \/ with_U /\ ~SvdOutputLegal(matB, n_rows)
              \/ with_VT /\ ~SvdOutputLegal(matC, n_columns)
           THEN /\ last' = Record("compute_SVD", arg, All("rejected"), NoCalls)
                /\ UNCHANGED <<state, property, values, ev, matB, matC>>
           ELSE IF fail # 0
           THEN /\ last' = Record("compute_SVD", arg, InactiveOutcome("threw"), calls)
                /\ values' = IF fail = 1 THEN values ELSE Scatter(This, values, Destroyed(G))
                /\ matB' = IF with_U /\ fail = 2
                           THEN SvdOutput(matB, Destroyed(Gather(LayoutOf(matB), matB.values)))
                           ELSE matB
                /\ matC' = IF with_VT /\ fail = 2
                           THEN SvdOutput(matC, Destroyed(Gather(LayoutOf(matC), matC.values)))
                           ELSE matC
                /\ UNCHANGED <<state, property, ev>>
           ELSE /\ SvdExact(G, n_rows, n_columns)
                /\ last' = Record("compute_SVD", arg, All("ok"), calls)
                /\ ev' = [p \in Procs |->
                            SingularValuesOn(p, SingularValues(G, n_rows, n_columns))]
                /\ values' = Scatter(This, values, Destroyed(G))
                /\ matB' = IF with_U
                           THEN SvdOutput(matB, LeftVectors(G, n_rows, n_columns,
                                                  Gather(LayoutOf(matB), matB.values)))
                           ELSE matB
                /\ matC' = IF with_VT
                           THEN SvdOutput(matC, RightVectors(G, n_rows, n_columns,
                                                  Gather(LayoutOf(matC), matC.values)))
                           ELSE matC
                /\ property' = All("general")
                /\ state' = All("unusable")
  /\ steps' = steps + 1
  /\ UNCHANGED <<res, n_mpi_processes, have_parallel_hdf5, triangulation, transfer, pc, trace, work, iwork, mutex,
                 n_process_rows, n_process_columns,
                 n_rows, n_columns, row_block_size, column_block_size,
                 assigned, dense, file, lq>>

\* ---------------------------------------------------------------- copies between distributed matrices
\* copy_to(ScaLAPACKMatrix &dest) across two grids: pgemr2d stores the
\* source's global matrix in the destination's local arrays
Redistribute(Lsrc, src, Ldest, dest) == Scatter(Ldest, dest, Gather(Lsrc, src))

\* copy_to(dest): communication is needed for different process grids or
\* block-cyclic distributions
NeedsRedistribution_mut(dest) ==
  \/ ThisGrid # dest.grid
  \/ row_block_size # dest.row_block_size

NeedsRedistribution(dest) ==
  \/ ThisGrid # dest.grid
  \/ row_block_size # dest.row_block_size
  \/ column_block_size # dest.column_block_size

\* what every process of the union communicator calls on the redistribution
\* path: the temporary context is created, used by pgemr2d and released
UnionCalls == All(<<"Cblacs_gridinit", "pgemr2d", "Cblacs_gridexit">>)

\* dest.state = state; dest.property = property; on every process
Stamped_mut(dest, st, prop) == [dest EXCEPT !.state = st]

Stamped(dest, st, prop) == [dest EXCEPT !.state = st, !.property = prop]

\* ScaLAPACKMatrix::copy_to(ScaLAPACKMatrix &dest), dest the second matrix object
copy_to_matrix ==
  /\ CanStep
  /\ matB.present
  /\ matB.comm = ThisComm
  /\ IF ~(n_rows = matB.n_rows /\ n_columns = matB.n_columns)
     THEN /\ last' = Record("copy_to_matrix", <<>>, All("rejected"), NoCalls)
          /\ UNCHANGED matB
     ELSE IF NeedsRedistribution(matB)
     THEN /\ last' = Record("copy_to_matrix", <<>>, All("ok"), UnionCalls)
          /\ matB' = Stamped([matB EXCEPT
                        !.values = Redistribute(This, values, LayoutOf(matB), matB.values)],
                        state, property)
     ELSE /\ last' = Record("copy_to_matrix", <<>>, All("ok"), NoCalls)
          /\ matB' = Stamped([matB EXCEPT
                        !.values = [p \in Procs |->
                                      IF mpi_process_is_active(This, p)
                                      THEN values[p] ELSE matB.values[p]]],
                        state, property)
  /\ steps' = steps + 1
  /\ UNCHANGED <<res, matC, n_mpi_processes, have_parallel_hdf5, triangulation, transfer, pc, trace, work, iwork, mutex,
                 n_process_rows, n_process_columns,
                 n_rows, n_columns, row_block_size, column_block_size,
                 state, property, values, assigned, dense, file, ev, lq>>

\* the range check of copy_to(B, offset_A, offset_B, submatrix_size) on one
\* dimension: offset < (unsigned int)(n - size + 1), where size is an
\* unsigned int, so that n - size + 1 is computed modulo 2^32; for
\* size > n + 1 it wraps to 2^32 + (n - size + 1), which is above every offset
\* passed here
RangeChecked(offset, n, size) ==
  IF n - size + 1 >= 0 THEN offset < n - size + 1 ELSE TRUE

\* the sub-block lies inside a dimension of n entries
InRange(offset, n, size) == offset + size <= n

\* pgemr2d on a sub-block: the size[1] x size[2] entries of A at offset oa are
\* stored in B at offset ob; an entry read outside A is unspecified, one
\* that would be written outside B is lost
SubBlockCopied(A, B, oa, ob, size) ==
  [ij \in DOMAIN B |->
     IF /\ ob[1] <= ij[1] /\ ij[1] < ob[1] + size[1]
        /\ ob[2] <= ij[2] /\ ij[2] < ob[2] + size[2]
     THEN LET src == <<oa[1] + ij[1] - ob[1], oa[2] + ij[2] - ob[2]>>
          IN  IF src \in DOMAIN A THEN A[src] ELSE JUNK
     ELSE B[ij]]

\* the offsets and sub-block sizes the model passes
Offsets == (0 .. (MaxDim - 1)) \X (0 .. (MaxDim - 1))
SubmatrixSizes == (0 .. (MaxDim + 2)) \X (0 .. (MaxDim + 2))

\* ScaLAPACKMatrix::copy_to(B, offset_A, offset_B, submatrix_size), B the
\* second matrix object.  Where the Asserts let a sub-block pass that is not
\* inside both matrices, pgemr2d either ends the program or copies outside
\* the matrices (overrun).
copy_to_block ==
  /\ CanStep
  /\ matB.present
  /\ \E offset_A \in Offsets, offset_B \in Offsets, submatrix_size \in SubmatrixSizes,
        overrun \in {"ends", "copies"} :
       LET arg == <<offset_A, offset_B, submatrix_size>>
           inside == /\ InRange(offset_A[1], n_rows, submatrix_size[1])
                     /\ InRange(offset_A[2], n_columns, submatrix_size[2])
                     /\ InRange(offset_B[1], matB.n_rows, submatrix_size[1])
                     /\ InRange(offset_B[2], matB.n_columns, submatrix_size[2])
           copied == [matB EXCEPT
                        !.values = Scatter(LayoutOf(matB), matB.values,
                                     SubBlockCopied(Gather(This, values),
                                                    Gather(LayoutOf(matB), matB.values),
                                                    offset_A, offset_B, submatrix_size)),
                        !.state = All("matrix")]
       IN  IF submatrix_size[1] = 0 \/ submatrix_size[2] = 0
           THEN /\ overrun = "ends"
                /\ last' = Record("copy_to_block", arg, All("ok"), NoCalls)
                /\ UNCHANGED matB
           ELSE IF \/ ~RangeChecked(offset_A[1], n_rows, submatrix_size[1])
                   \/ ~RangeChecked(offset_A[2], n_columns, submatrix_size[2])
                   \/ ~RangeChecked(offset_B[1], matB.n_rows, submatrix_size[1])
                   \/ ~RangeChecked(offset_B[2], matB.n_columns, submatrix_size[2])
                   \/ matB.comm # ThisComm
           THEN /\ overrun = "ends"
                /\ last' = Record("copy_to_block", arg, All("rejected"), NoCalls)
                /\ UNCHANGED matB
           ELSE IF inside
           THEN /\ overrun = "ends"
                /\ last' = Record("copy_to_block", arg, All("ok"), UnionCalls)
                /\ matB' = copied
           ELSE IF overrun = "ends"
           THEN /\ last' = Record("copy_to_block", arg, All("aborted"),
                                  All(<<"Cblacs_gridinit", "pgemr2d">>))
                /\ UNCHANGED matB
           ELSE /\ last' = Record("copy_to_block", arg, All("ok"), UnionCalls)
                /\ matB' = copied
  /\ steps' = steps + 1
  /\ UNCHANGED <<res, matC, n_mpi_processes, have_parallel_hdf5, triangulation, transfer, pc, trace, work, iwork, mutex,
                 n_process_rows, n_process_columns,
                 n_rows, n_columns, row_block_size, column_block_size,
                 state, property, values, assigned, dense, file, ev, lq>>

\* ---------------------------------------------------------------- addition
\* the Asserts at the head of add(B, alpha, beta, transpose_B)
AddLegal_mut(B, transpose_B) ==
  /\ IF transpose_B
     THEN /\ n_rows = B.n_columns
          /\ n_columns = B.n_rows
     ELSE /\ n_rows = B.n_rows
          /\ n_columns = B.n_columns
          /\ column_block_size = B.column_block_size
          /\ row_block_size = B.row_block_size
  /\ ThisGrid = B.grid

AddLegal(B, transpose_B) ==
  /\ IF transpose_B
     THEN /\ n_rows = B.n_columns
          /\ n_columns = B.n_rows
          /\ column_block_size = B.row_block_size
          /\ row_block_size = B.column_block_size
     ELSE /\ n_rows = B.n_rows
          /\ n_columns = B.n_columns
          /\ column_block_size = B.column_block_size
          /\ row_block_size = B.row_block_size
  /\ ThisGrid = B.grid

\* the call of pgeadd in add: beta scales B, alpha scales this matrix
AddKernel_mut(B, alpha, beta, transpose_B) ==
  pgeadd(transpose_B, n_rows, n_columns,
         alpha, Gather(LayoutOf(B), B.values), beta, Gather(This, values))

AddKernel(B, alpha, beta, transpose_B) ==
  pgeadd(transpose_B, n_rows, n_columns,
         beta, Gather(LayoutOf(B), B.values), alpha, Gather(This, values))

\* add(B, alpha, beta, transpose_B), entered through the public function
\* named entry with the arguments arg
AddCore(entry, arg, B, alpha, beta, transpose_B) ==
  IF ~AddLegal(B, transpose_B)
  THEN /\ last' = Record(entry, arg, All("rejected"), NoCalls)
       /\ UNCHANGED <<state, values>>
  ELSE /\ last' = Record(entry, arg, All("ok"), KernelCalls(<<"pgeadd">>))
       /\ values' = Scatter(This, values, AddKernel(B, alpha, beta, transpose_B))
       /\ state' = All("matrix")

AddFrame ==
  /\ steps' = steps + 1
  /\ UNCHANGED <<res, matB, matC, n_mpi_processes, have_parallel_hdf5, triangulation, transfer, pc, trace, work, iwork, mutex,
                 n_process_rows, n_process_columns,
                 n_rows, n_columns, row_block_size, column_block_size,
                 property, assigned, dense, file, ev, lq>>

\* the scalars the model passes
Scalars == {RZero, ROne, Num(2)}

\* ScaLAPACKMatrix::add(B, alpha, beta, transpose_B), B the second matrix object
add ==
  /\ CanStep
  /\ matB.present
  /\ \E alpha \in Scalars, beta \in Scalars, transpose_B \in BOOLEAN :
       AddCore("add", <<alpha, beta, transpose_B>>, matB, alpha, beta, transpose_B)
  /\ AddFrame

\* ScaLAPACKMatrix::add(a, B)
add_a_B ==
  /\ CanStep
  /\ matB.present
  /\ \E a \in Scalars : AddCore("add_a_B", <<a>>, matB, ROne, a, FALSE)
  /\ AddFrame

\* ScaLAPACKMatrix::Tadd(a, B)
Tadd ==
  /\ CanStep
  /\ matB.present
  /\ \E a \in Scalars : AddCore("Tadd", <<a>>, matB, ROne, a, TRUE)
  /\ AddFrame

\* ScaLAPACKMatrix::copy_transposed(B)
copy_transposed ==
  /\ CanStep
  /\ matB.present
  /\ AddCore("copy_transposed", <<>>, matB, RZero, ROne, TRUE)
  /\ AddFrame

\* ---------------------------------------------------------------- multiplication
\* the Asserts at the head of mult(b, B, c, C, transpose_A, transpose_B)
MultLegal_mut(B, C, transpose_A, transpose_B) ==
  /\ ThisGrid = B.grid
  /\ C.grid = B.grid
  /\ IF ~transpose_A /\ ~transpose_B
     THEN /\ n_columns = B.n_rows
          /\ n_rows = C.n_rows
          /\ B.n_columns = C.n_columns
          /\ row_block_size = C.row_block_size
          /\ column_block_size = B.row_block_size
          /\ B.column_block_size = C.column_block_size
     ELSE IF transpose_A /\ ~transpose_B
     THEN /\ n_rows = B.n_rows
          /\ n_columns = C.n_rows
          /\ B.n_columns = C.n_columns
          /\ column_block_size = C.row_block_size
          /\ row_block_size = B.row_block_size
          /\ B.column_block_size = C.column_block_size
     ELSE IF ~transpose_A /\ transpose_B
     THEN /\ n_columns = B.n_columns
          /\ n_rows = C.n_rows
          /\ B.n_rows = C.n_columns
          /\ row_block_size = C.row_block_size
          /\ column_block_size = B.column_block_size
          /\ B.row_block_size = C.column_block_size
     ELSE /\ n_rows = B.n_columns
          /\ n_columns = C.n_rows
          /\ B.n_rows = C.n_columns
          /\ row_block_size = C.row_block_size
          /\ column_block_size = B.row_block_size
          /\ B.column_block_size = C.column_block_size

MultLegal(B, C, transpose_A, transpose_B) ==
  /\ ThisGrid = B.grid
  /\ C.grid = B.grid
  /\ IF ~transpose_A /\ ~transpose_B
     THEN /\ n_columns = B.n_rows
          /\ n_rows = C.n_rows
          /\ B.n_columns = C.n_columns
          /\ row_block_size = C.row_block_size
          /\ column_block_size = B.row_block_size
          /\ B.column_block_size = C.column_block_size
     ELSE IF transpose_A /\ ~transpose_B
     THEN /\ n_rows = B.n_rows
          /\ n_columns = C.n_rows
          /\ B.n_columns = C.n_columns
          /\ column_block_size = C.row_block_size
          /\ row_block_size = B.row_block_size
          /\ B.column_block_size = C.column_block_size
     ELSE IF ~transpose_A /\ transpose_B
     THEN /\ n_columns = B.n_columns
          /\ n_rows = C.n_rows
          /\ B.n_rows = C.n_columns
          /\ row_block_size = C.row_block_size
          /\ column_block_size = B.column_block_size
          /\ B.row_block_size = C.column_block_size
     ELSE /\ n_rows = B.n_columns
          /\ n_columns = C.n_rows
          /\ B.n_rows = C.n_columns
          /\ column_block_size = C.row_block_size
          /\ row_block_size = B.column_block_size
          /\ B.row_block_size = C.column_block_size

\* the call of pgemm in mult: m and n are the shape of C, k the inner dimension
MultKernel(b, B, c, C, transpose_A, transpose_B) ==
  pgemm(transpose_A, transpose_B, C.n_rows, C.n_columns,
        IF transpose_A THEN n_rows ELSE n_columns,
        b, Gather(This, values), Gather(LayoutOf(B), B.values),
        c, Gather(LayoutOf(C), C.values))

\* ScaLAPACKMatrix::mult(b, B, c, C, transpose_A, transpose_B), B the second
\* and C the third matrix object
mult ==
  /\ CanStep
  /\ matB.present /\ matC.present
  /\ \E b \in Scalars, c \in Scalars, transpose_A \in BOOLEAN, transpose_B \in BOOLEAN :
       LET arg == <<b, c, transpose_A, transpose_B>>
       IN  IF ~MultLegal(matB, matC, transpose_A, transpose_B)
           THEN /\ last' = Record("mult", arg, All("rejected"), NoCalls)
                /\ UNCHANGED matC
           ELSE /\ last' = Record("mult", arg, All("ok"), KernelCalls(<<"pgemm">>))
                /\ matC' = [matC EXCEPT
                              !.values = Scatter(LayoutOf(matC), matC.values,
                                                 MultKernel(b, matB, c, matC,
                                                            transpose_A, transpose_B)),
                              !.state = All("matrix")]
  /\ steps' = steps + 1
  /\ UNCHANGED <<res, matB, n_mpi_processes, have_parallel_hdf5, triangulation, transfer, pc, trace, work, iwork, mutex,
                 n_process_rows, n_process_columns,
                 n_rows, n_columns, row_block_size, column_block_size,
                 state, property, values, assigned, dense, file, ev, lq>>

\* ---------------------------------------------------------------- least squares
\* the Asserts at the head of least_squares(B, transpose)
LeastSquaresLegal_mut(B, transpose) ==
  /\ ThisGrid = B.grid
  /\ StateNow = "matrix"
  /\ IF transpose THEN n_columns = B.n_rows ELSE n_rows = B.n_rows
  /\ row_block_size = column_block_size
  /\ B.row_block_size = B.column_block_size
  /\ row_block_size = B.row_block_size

LeastSquaresLegal(B, transpose) ==
  /\ ThisGrid = B.grid
  /\ StateNow = "matrix"
  /\ B.state[0] = "matrix"
  /\ IF transpose THEN n_columns = B.n_rows ELSE n_rows = B.n_rows
  /\ row_block_size = column_block_size
  /\ B.row_block_size = B.column_block_size
  /\ row_block_size = B.row_block_size

\* ScaLAPACKMatrix::least_squares(B, transpose), B the second matrix object
least_squares ==
  /\ CanStep
  /\ matB.present
  /\ \E transpose \in BOOLEAN, fail \in 0 .. 2 :
       LET r == pgels(transpose, n_rows, n_columns,
                      Gather(This, values), Gather(LayoutOf(matB), matB.values))
           calls == KernelCalls(IF fail = 1 THEN <<"pgels">> ELSE <<"pgels", "pgels">>)
       IN  IF ~LeastSquaresLegal(matB, transpose)
           THEN /\ last' = Record("least_squares", <<transpose>>, All("rejected"), NoCalls)
                /\ UNCHANGED <<state, values, matB>>
           ELSE IF fail # 0
           THEN /\ last' = Record("least_squares", <<transpose>>,
                                  InactiveOutcome("threw"), calls)
                /\ values' = IF fail = 1 THEN values
                             ELSE Scatter(This, values, Destroyed(Gather(This, values)))
                /\ matB' = IF fail = 1 THEN matB
                           ELSE [matB EXCEPT !.values =
                                   Scatter(LayoutOf(matB), matB.values,
                                           Destroyed(Gather(LayoutOf(matB), matB.values)))]
                /\ UNCHANGED state
           ELSE /\ last' = Record("least_squares", <<transpose>>, All("ok"), calls)
                /\ values' = Scatter(This, values, r.a)
                /\ matB' = [matB EXCEPT !.values = Scatter(LayoutOf(matB), matB.values, r.b)]
                /\ state' = All("unusable")
  /\ steps' = steps + 1
  /\ UNCHANGED <<res, matC, n_mpi_processes, have_parallel_hdf5, triangulation, transfer, pc, trace, work, iwork, mutex,
                 n_process_rows, n_process_columns,
                 n_rows, n_columns, row_block_size, column_block_size,
                 property, assigned, dense, file, ev, lq>>

\* ---------------------------------------------------------------- checkpoint I/O
\* the temporary matrix of save_serial / load_serial: everything on a 1x1 grid
SerialLayout == Layout(1, 1, n_rows, n_columns, n_rows, n_columns)

\* the column block size of the temporary matrix of save_parallel /
\* load_parallel: NB = std::ceil(n_columns/n_mpi_processes), an integer division
ParallelNB_mut == (n_columns + n_mpi_processes - 1) \div n_mpi_processes
ParallelNB == n_columns \div n_mpi_processes

\* the temporary matrix of save_parallel / load_parallel: a 1 x P grid
ParallelLayout == Layout(1, n_mpi_processes, n_rows, n_columns, n_rows, ParallelNB)

\* the constructor's Asserts on the block sizes
BlockSizesValid(L) ==
  /\ L.row_block_size > 0
  /\ L.column_block_size > 0
  /\ L.row_block_size <= L.n_rows
  /\ L.column_block_size <= L.n_columns

TmpConstructed(L) == [p \in Procs |-> ConstructedValues(L, p)]

\* the hyperslab offset of rank r: the local columns of the ranks before it
RECURSIVE HyperslabOffset(_, _)
HyperslabOffset(L, r) ==
  IF r = 0 THEN 0 ELSE HyperslabOffset(L, r - 1) + n_local_columns(L, r - 1)

\* The "/matrix" dataset has n_columns rows of n_rows entries (row-major in
\* the file, column-major in memory).  Entry (f, r) of the dataset after the
\* ranks that hold data have written their local arrays tmp through layout L.
WrittenDataset(L, tmp) ==
  [fr \in Idx(L.n_columns, L.n_rows) |->
     IF \E p \in Procs :
          /\ mpi_process_is_active(L, p)
          /\ TableSize(tmp[p]) > 0
          /\ fr[1] - HyperslabOffset(L, p) \in 0 .. (n_local_columns(L, p) - 1)
     THEN LET p == CHOOSE q \in Procs :
                     /\ mpi_process_is_active(L, q)
                     /\ TableSize(tmp[q]) > 0
                     /\ fr[1] - HyperslabOffset(L, q) \in 0 .. (n_local_columns(L, q) - 1)
          IN  tmp[p].v[(fr[1] - HyperslabOffset(L, p)) * L.n_rows + fr[2] + 1]
     ELSE RZero]

\* the local array rank p reads back from the dataset through layout L
ReadDataset(L, p, t, data) ==
  Table(t.m, t.n,
    [k \in 1 .. Len(t.v) |->
       data[<<HyperslabOffset(L, p) + ((k - 1) \div L.n_rows), (k - 1) % L.n_rows>>]])

invalid_chunk == <<invalid_unsigned_int, invalid_unsigned_int>>
\* the chunk sizes the model passes to save: the default and an invalid one
ChunkSizes == {invalid_chunk, <<0, 1>>}

ChunkValid(chunk_size) ==
  LET c == IF chunk_size[1] = invalid_unsigned_int \/ chunk_size[2] = invalid_unsigned_int
           THEN <<n_rows, 1>> ELSE chunk_size
  IN  /\ c[1] <= n_rows /\ c[1] > 0
      /\ c[2] <= n_columns /\ c[2] > 0

Archive(data) ==
  [written |-> TRUE, dims |-> <<n_columns, n_rows>>, data |-> data,
   state |-> state[0], property |-> property[0],
   saved_entries |-> Gather(This, values), saved_state |-> state,
   saved_property |-> property]

IOFrame ==
  /\ steps' = steps + 1
  /\ UNCHANGED <<res, matB, matC, n_mpi_processes, have_parallel_hdf5, triangulation, transfer, pc, trace, work, iwork, mutex,
                 n_process_rows, n_process_columns,
                 n_rows, n_columns, row_block_size, column_block_size,
                 assigned, dense, ev, lq>>

\* ScaLAPACKMatrix::save (save_serial or save_parallel by the build)
save ==
  /\ CanStep
  /\ \E chunk_size \in ChunkSizes :
       LET Lt == IF have_parallel_hdf5 THEN ParallelLayout ELSE SerialLayout
       IN  IF ~ChunkValid(chunk_size) \/ ~BlockSizesValid(Lt)
           THEN /\ last' = Record("save", <<chunk_size>>, All("rejected"), NoCalls)
                /\ UNCHANGED file
           ELSE /\ file' = Archive(WrittenDataset(Lt,
                                     Redistribute(This, values, Lt, TmpConstructed(Lt))))
                /\ last' = Record("save", <<chunk_size>>, All("ok"), NoCalls)
  /\ UNCHANGED <<state, property, values>>
  /\ IOFrame

\* ScaLAPACKMatrix::load (load_serial or load_parallel by the build)
load ==
  /\ CanStep
  /\ file.written
  /\ LET Lt == IF have_parallel_hdf5 THEN ParallelLayout ELSE SerialLayout
         dims_ok == file.dims[1] = n_columns /\ file.dims[2] = n_rows
         tmp == [p \in Procs |->
                   IF mpi_process_is_active(Lt, p)
                   THEN ReadDataset(Lt, p, ConstructedValues(Lt, p), file.data)
                   ELSE EmptyTable]
     IN  IF ~BlockSizesValid(Lt)
         THEN /\ last' = Record("load", <<>>, All("rejected"), NoCalls)
              /\ UNCHANGED <<state, property, values>>
         ELSE IF ~dims_ok
         THEN \* the processes that read the file throw; in the serial build
              \* the others wait in send_to_inactive
              /\ last' = Record("load", <<>>,
                                [p \in Procs |-> IF mpi_process_is_active(Lt, p)
                                                 THEN "threw" ELSE "blocked"],
                                NoCalls)
              /\ UNCHANGED <<state, property, values>>
         ELSE /\ values' = Redistribute(Lt, tmp, This, values)
              /\ state' = All(file.state)
              /\ property' = All(file.property)
              /\ last' = Record("load", <<>>, All("ok"), NoCalls)
  /\ UNCHANGED file
  /\ IOFrame

Next ==
  \/ set_property
  \/ assign
  \/ copy_to_dense
  \/ compute_cholesky_factorization
  \/ invert
  \/ eigenpairs_symmetric
  \/ eigenpairs_symmetric_by_index
  \/ eigenpairs_symmetric_by_value

Spec == Init /\ [][Next]_vars

\* ---------------------------------------------------------------- the checkpoint specification
\* Either build; a matrix is assigned, factored and saved; after a save that
\* wrote an archive a newly constructed matrix may replace it, and is loaded.
InitIO ==
  /\ have_parallel_hdf5 \in BOOLEAN
  /\ InitObject

NextIO ==
  \/ (last.op = "save" /\ file.written /\ Construct)
  \/ assign
  \/ compute_cholesky_factorization
  \/ save
  \/ load

SpecIO == InitIO /\ [][NextIO]_vars

\* ---------------------------------------------------------------- the reductions specification
\* One matrix: it is assigned, factored, inverted or decomposed, and its
\* norms, condition number, eigenvalues and singular values are asked for.
NextReduce ==
  \/ assign
  \/ compute_cholesky_factorization
  \/ invert
  \/ eigenpairs_symmetric_by_index
  \/ compute_SVD
  \/ l1_norm
  \/ linfty_norm
  \/ frobenius_norm
  \/ reciprocal_condition_number

SpecReduce == Init /\ [][NextReduce]_vars

\* ---------------------------------------------------------------- the singular value specification
\* The matrix under test as constructed or after an assignment, and the
\* matrices a caller may pass as U and VT: any constructed matrix on the
\* same grid object, or one of the right shape on another grid object.  One
\* operation is followed, two where no further matrix exists.
InitContents ==
  \E F \in {NoDense} \cup Inputs(n_rows, n_columns) :
    /\ assigned = F
    /\ values = [p \in Procs |->
                   IF F # NoDense /\ mpi_process_is_active(This, p)
                   THEN AssignLocal(This, p, ConstructedValues(This, p), F)
                   ELSE ConstructedValues(This, p)]
    /\ last = [op |-> IF F = NoDense THEN "construct" ELSE "assign", arg |-> <<>>,
               pre_state |-> All("matrix"), pre_property |-> property,
               outcome |-> All("ok"), calls |-> NoCalls,
               prev |-> [op |-> IF F = NoDense THEN "none" ELSE "construct",
                         pre_state |-> "matrix", ok |-> TRUE]]

InitLayoutOfThis ==
  /\ have_parallel_hdf5 = FALSE
  /\ n_mpi_processes \in 1 .. MaxProcs
  /\ \E rc \in GridShapes(n_mpi_processes) :
       /\ n_process_rows = rc[1]
       /\ n_process_columns = rc[2]
  /\ n_rows \in 1 .. MaxDim
  /\ n_columns \in 1 .. MaxDim
  /\ row_block_size \in 1 .. n_rows
  /\ column_block_size \in 1 .. n_columns
  /\ state = All("matrix")
  /\ dense = All(NoDense)
  /\ file = NoFile
  /\ ev = All(<<>>)
  /\ lq = LayoutIdle
  /\ res = All(RZero)
  /\ pc = <<>>
  /\ trace = <<>>
  /\ ScratchIdle
  /\ TransferIdle

SvdOutputs(dim) ==
  {Made(ThisGrid, s[1], s[2], s[3], s[4]) : s \in Shapes}
  \cup {Made(OtherGrid, s[1], s[2], s[3], s[4]) :
          s \in {t \in Shapes : t = <<dim, dim, row_block_size, column_block_size>>}}

InitSvd ==
  /\ InitLayoutOfThis
  /\ property = All("general")
  /\ InitContents
  /\ matB \in {NoMatrix} \cup SvdOutputs(n_rows)
  /\ matC \in {NoMatrix} \cup SvdOutputs(n_columns)
  /\ steps = IF matB = NoMatrix /\ matC = NoMatrix THEN MaxSteps - 2 ELSE MaxSteps - 1

NextSvd ==
  \/ compute_cholesky_factorization
  \/ compute_SVD

SpecSvd == InitSvd /\ [][NextSvd]_vars

\* ---------------------------------------------------------------- the least squares specification
\* the further matrix M, square, after operator=(identity) and
\* compute_cholesky_factorization(): the factor of the identity is the identity
Factored(M) ==
  [Assigned(M, Fident(M.n_rows)) EXCEPT !.state = All("cholesky"),
                                        !.property = All("lower_triangular")]

\* the right-hand sides: a matrix on the same grid object as constructed,
\* assigned or factored, or an assigned one on another grid object
RightHandSides ==
  {Made(ThisGrid, s[1], s[2], s[3], s[4]) : s \in Shapes}
  \cup {Assigned(Made(g, s[1], s[2], s[3], s[4]), Fdistinct(s[1], s[2])) :
          g \in {ThisGrid, OtherGrid}, s \in Shapes}
  \cup {Factored(Made(ThisGrid, s[1], s[2], s[3], s[4])) :
          s \in {t \in Shapes : t[1] = t[2]}}

InitLsq ==
  /\ InitLayoutOfThis
  /\ property = All("general")
  /\ InitContents
  /\ matB \in RightHandSides
  /\ matC = NoMatrix
  /\ steps = MaxSteps - 2

NextLsq == least_squares

SpecLsq == InitLsq /\ [][NextLsq]_vars

\* ---------------------------------------------------------------- the addition specification
\* the matrices added: assigned ones of any shape on the same grid object,
\* and of the shape of the matrix or of its transpose on another grid object
Summands ==
  {Assigned(Made(ThisGrid, s[1], s[2], s[3], s[4]), Fdistinct(s[1], s[2])) : s \in Shapes}
  \cup {Assigned(Made(OtherGrid, s[1], s[2], s[3], s[4]), Fdistinct(s[1], s[2])) :
          s \in {<<n_rows, n_columns, row_block_size, column_block_size>>,
                  <<n_columns, n_rows, column_block_size, row_block_size>>}}

\* One operation is followed; two where the identity was assigned and the
\* summand has the layout of the matrix, so that sums are also formed in the
\* states a factorization leaves.
InitAdd ==
  /\ InitLayoutOfThis
  /\ property = All("general")
  /\ InitContents
  /\ matB \in Summands
  /\ matC = NoMatrix
  /\ steps = IF assigned = Fident(n_rows) /\ LayoutOf(matB) = This /\ matB.grid = ThisGrid
             THEN MaxSteps - 2 ELSE MaxSteps - 1

NextAdd ==
  \/ compute_cholesky_factorization
  \/ add
  \/ add_a_B
  \/ Tadd
  \/ copy_transposed

SpecAdd == InitAdd /\ [][NextAdd]_vars

\* ---------------------------------------------------------------- the multiplication specification
\* the factors and products: matrices of any shape on the same grid object
\* (a product as constructed or factored), or of the shape of the matrix
\* under test on another grid object
Factors ==
  {Assigned(Made(ThisGrid, s[1], s[2], s[3], s[4]), Fdistinct(s[1], s[2])) : s \in Shapes}
  \cup {Assigned(Made(OtherGrid, n_rows, n_columns, row_block_size, column_block_size),
                  Fdistinct(n_rows, n_columns))}

Products ==
  {Assigned(Made(ThisGrid, s[1], s[2], s[3], s[4]), Fdistinct(s[1], s[2])) : s \in Shapes}
  \cup {Factored(Made(ThisGrid, s[1], s[2], s[3], s[4])) :
          s \in {t \in Shapes : t[1] = t[2] /\ t[3] = t[4]}}
  \cup {Made(OtherGrid, n_rows, n_columns, row_block_size, column_block_size)}

\* the matrix under test holds distinct entries; one operation is followed
InitMult ==
  /\ InitLayoutOfThis
  /\ property = All("general")
  /\ InitContents
  /\ assigned = Fdistinct(n_rows, n_columns)
  /\ matB \in Factors
  /\ matC \in Products
  /\ steps = MaxSteps - 1

NextMult == mult

SpecMult == InitMult /\ [][NextMult]_vars

\* ---------------------------------------------------------------- the copy specification
\* the destinations: matrices of the shape of the matrix under test with any
\* block sizes, on the same grid object or on another grid object of any
\* shape, as constructed; and assigned ones of any shape on the same grid object
Destinations ==
  {Made(ThisGrid, n_rows, n_columns, s[3], s[4]) :
     s \in {t \in Shapes : t[1] = n_rows /\ t[2] = n_columns}}
  \cup {MadeOn(OtherGrid, ThisComm, rc[1], rc[2], n_rows, n_columns, s[3], s[4]) :
          rc \in GridShapes(n_mpi_processes),
          s \in {t \in Shapes : t[1] = n_rows /\ t[2] = n_columns}}
  \cup {Assigned(Made(ThisGrid, s[1], s[2], s[3], s[4]), Fdistinct(s[1], s[2])) : s \in Shapes}

\* two operations are followed
InitCopy ==
  /\ InitLayoutOfThis
  /\ \E prop \in ConstructorProperties : property = All(prop)
  /\ InitContents
  /\ matB \in Destinations
  /\ matC = NoMatrix
  /\ steps = MaxSteps - 2

NextCopy ==
  \/ compute_cholesky_factorization
  \/ copy_to_matrix

SpecCopy == InitCopy /\ [][NextCopy]_vars

\* ---------------------------------------------------------------- the sub-block specification
\* the targets of a sub-block copy: assigned or factored matrices of any
\* shape on the same grid object, a matrix on another grid object of any
\* shape, and one on a duplicate of the communicator
BlockTargets ==
  {Assigned(Made(ThisGrid, s[1], s[2], s[3], s[4]), Fdistinct(s[1], s[2])) : s \in Shapes}
  \cup {Factored(Made(ThisGrid, s[1], s[2], s[3], s[4])) :
          s \in {t \in Shapes : t[1] = MaxDim /\ t[2] = MaxDim /\ t[3] = t[4]}}
  \cup {MadeOn(OtherGrid, ThisComm, rc[1], rc[2], MaxDim, MaxDim, 1, 1) :
          rc \in GridShapes(n_mpi_processes)}
  \cup {MadeOn(OtherGrid, OtherComm, n_process_rows, n_process_columns,
                MaxDim, MaxDim, 1, 1)}

\* the matrix under test holds distinct entries; one operation is followed
InitBlock ==
  /\ InitLayoutOfThis
  /\ property = All("general")
  /\ InitContents
  /\ assigned = Fdistinct(n_rows, n_columns)
  /\ matB \in BlockTargets
  /\ matC = NoMatrix
  /\ steps = MaxSteps - 1

NextBlock == copy_to_block

SpecBlock == InitBlock /\ [][NextBlock]_vars

\* ---------------------------------------------------------------- the identity specification
\* A square matrix flagged symmetric, with square blocks, of dimension up to
\* MaxIdentityDim, to which the identity has just been assigned; one more
\* operation is followed: the selection of its eigenvalues by index.
InitAssignedIdentity ==
  /\ have_parallel_hdf5 = FALSE
  /\ n_mpi_processes \in 1 .. MaxProcs
  /\ \E rc \in GridShapes(n_mpi_processes) :
       /\ n_process_rows = rc[1]
       /\ n_process_columns = rc[2]
  /\ n_rows \in 1 .. MaxIdentityDim
  /\ n_columns = n_rows
  /\ row_block_size \in 1 .. n_rows
  /\ column_block_size = row_block_size
  /\ state = All("matrix")
  /\ property = All("symmetric")
  /\ values = [p \in Procs |->
                 IF mpi_process_is_active(This, p)
                 THEN AssignLocal(This, p, ConstructedValues(This, p), Fident(n_rows))
                 ELSE ConstructedValues(This, p)]
  /\ assigned = Fident(n_rows)
  /\ dense = All(NoDense)
  /\ file = NoFile
  /\ ev = All(<<>>)
  /\ last = [op |-> "assign", arg |-> <<>>, pre_state |-> All("matrix"),
             pre_property |-> property, outcome |-> All("ok"), calls |-> NoCalls,
             prev |-> [op |-> "construct", pre_state |-> "matrix", ok |-> TRUE]]
  /\ steps = MaxSteps - 1
  /\ lq = LayoutIdle
  /\ res = All(RZero)
  /\ pc = <<>>
  /\ trace = <<>>
  /\ ScratchIdle
  /\ TransferIdle
  /\ matB = NoMatrix
  /\ matC = NoMatrix

NextIdentity == eigenpairs_symmetric_by_index

SpecIdentity == InitAssignedIdentity /\ [][NextIdentity]_vars

\* ---------------------------------------------------------------- the layout specification
\* One global index g of a dimension of n entries in blocks of nb over nprocs
\* process coordinates: its owner, its local index there, and the global
\* index that local index maps back to.
RowLayout(n, nb, nprocs) == Layout(nprocs, 1, n, 1, nb, 1)
ColumnLayout(n, nb, nprocs) == Layout(1, nprocs, 1, n, 1, nb)

LayoutQuery(n, nb, nprocs, g) ==
  LET owner == indxg2p(g + 1, nb, 0, first_process_row, nprocs)
      loc   == indxg2l(g + 1, nb, 0, first_process_row, nprocs) - 1
  IN  [n |-> n, nb |-> nb, nprocs |-> nprocs, g |-> g, owner |-> owner, loc |-> loc,
       back |-> global_row(RowLayout(n, nb, nprocs), owner, loc)]

InitLayout ==
  /\ have_parallel_hdf5 = FALSE
  /\ n_mpi_processes = 1
  /\ n_process_rows = 1
  /\ n_process_columns = 1
  /\ n_rows = 1
  /\ n_columns = 1
  /\ row_block_size = 1
  /\ column_block_size = 1
  /\ state = All("matrix")
  /\ property = All("general")
  /\ values = [p \in Procs |-> ConstructedValues(This, p)]
  /\ assigned = NoDense
  /\ dense = All(NoDense)
  /\ file = NoFile
  /\ ev = All(<<>>)
  /\ last = [op |-> "construct", arg |-> <<>>, pre_state |-> All("matrix"),
             pre_property |-> property, outcome |-> All("ok"), calls |-> NoCalls,
             prev |-> [op |-> "none", pre_state |-> "matrix", ok |-> TRUE]]
  /\ steps = 0
  /\ res = All(RZero)
  /\ pc = <<>>
  /\ trace = <<>>
  /\ ScratchIdle
  /\ TransferIdle
  /\ matB = NoMatrix
  /\ matC = NoMatrix
  /\ \E n \in 1 .. MaxLayoutDim, nprocs \in 1 .. MaxLayoutProcs :
       \E nb \in 1 .. n : lq = LayoutQuery(n, nb, nprocs, 0)

\* the next global index of the same dimension
locate_next ==
  /\ lq.g + 1 < lq.n
  /\ lq' = LayoutQuery(lq.n, lq.nb, lq.nprocs, lq.g + 1)
  /\ UNCHANGED <<res, matB, matC, n_mpi_processes, have_parallel_hdf5, triangulation, transfer, pc, trace, work, iwork, mutex,
                 n_process_rows, n_process_columns,
                 n_rows, n_columns, row_block_size, column_block_size,
                 state, property, values, assigned, dense, file, ev, last, steps>>

NextLayout == locate_next

SpecLayout == InitLayout /\ [][NextLayout]_vars

\* ---------------------------------------------------------------- the constructor specification
\* the BLACS context handle of the process grid on its active processes
blacs_context == 0

\* descinit_ fills the nine descriptor entries: type (1 = dense), context,
\* M, N, MB, NB, RSRC, CSRC, LLD
descinit(L, ictxt, lda) ==
  <<1, ictxt, L.n_rows, L.n_columns, L.row_block_size, L.column_block_size,
    first_process_row, first_process_column, lda>>

\* the descriptor of an inactive process
InactiveDescriptor_mut == [i \in 1 .. 9 |-> 0]
InactiveDescriptor == [i \in 1 .. 9 |-> -1]

\* the process-local members the constructor leaves on process p
LocalMembers(L, p) ==
  [n_local_rows    |-> n_local_rows(L, p),
   n_local_columns |-> n_local_columns(L, p),
   descriptor      |-> IF mpi_process_is_active(L, p)
                       THEN descinit(L, blacs_context, lld(L, p))
                       ELSE InactiveDescriptor,
   buffer          |-> TableSize(ConstructedValues(L, p))]

\* the block sizes a caller may pass: zero, legal ones, one too large
BlockSizeArguments(n) == 0 .. (n + 1)

\* ScaLAPACKMatrix::ScaLAPACKMatrix with any block sizes: a new object
\* replaces the matrix under test, or an Assert stops the construction
ScaLAPACKMatrix ==
  /\ CanStep
  /\ \E rc \in GridShapes(n_mpi_processes), m \in 1 .. MaxDim, n \in 1 .. MaxDim,
        prop \in ConstructorProperties :
       \E mb \in BlockSizeArguments(m), nb \in BlockSizeArguments(n) :
         LET L == Layout(rc[1], rc[2], m, n, mb, nb)
         IN  IF BlockSizesValid(L)
             THEN /\ Constructed(rc[1], rc[2], m, n, mb, nb, prop)
                  /\ last' = Record("ScaLAPACKMatrix",
                                    <<L, [p \in Procs |-> LocalMembers(L, p)]>>,
                                    All("ok"),
                                    [p \in Procs |-> IF mpi_process_is_active(L, p)
                                                     THEN <<"numroc", "numroc", "descinit">>
                                                     ELSE <<>>])
                  /\ ev' = All(<<>>)
             ELSE /\ last' = Record("ScaLAPACKMatrix", <<L>>, All("rejected"), NoCalls)
                  /\ UNCHANGED <<n_process_rows, n_process_columns, n_rows, n_columns,
                                 row_block_size, column_block_size, state, property,
                                 values, ev>>
  /\ steps' = steps + 1
  /\ UNCHANGED <<res, matB, matC, n_mpi_processes, have_parallel_hdf5, triangulation, transfer, pc, trace, work, iwork, mutex,
                 assigned, dense, file, lq>>

\* the matrix under test as constructed, or after the assignment of a
\* matrix that can be factored; one operation is followed on the first, two
\* on the second
InitConstructor ==
  /\ InitLayoutOfThis
  /\ \E prop \in ConstructorProperties : property = All(prop)
  /\ InitContents
  /\ assigned = NoDense \/ (n_rows = n_columns /\ assigned = Fspd(n_rows))
  /\ matB = NoMatrix
  /\ matC = NoMatrix
  /\ steps = IF assigned = NoDense THEN MaxSteps - 1 ELSE MaxSteps - 2

NextConstructor ==
  \/ ScaLAPACKMatrix
  \/ compute_cholesky_factorization

SpecConstructor == InitConstructor /\ [][NextConstructor]_vars

\* ---------------------------------------------------------------- save_parallel, step by step
\* The processes run save_parallel each at its own pace.  pc[p] is the next
\* call of process p, trace the calls made so far.
MaxSaveProcs == 3
MaxSaveColumns == 4

Called(p, call) == [rank |-> p, call |-> call]

\* save_parallel up to the creation of the dataset: every process has
\* redistributed the matrix to tmp on the 1 x P grid and is about to write
InitSaveParallel ==
  /\ have_parallel_hdf5 = TRUE
  /\ n_mpi_processes \in 1 .. MaxSaveProcs
  /\ n_process_rows = 1
  /\ n_process_columns = 1
  /\ n_rows = 1
  /\ n_columns \in 1 .. MaxSaveColumns
  /\ row_block_size = 1
  /\ column_block_size = 1
  /\ BlockSizesValid(ParallelLayout)
  /\ state = All("matrix")
  /\ property = All("general")
  /\ values = [p \in Procs |-> ConstructedValues(This, p)]
  /\ assigned = NoDense
  /\ dense = All(NoDense)
  /\ file = NoFile
  /\ ev = All(<<>>)
  /\ last = [op |-> "construct", arg |-> <<>>, pre_state |-> All("matrix"),
             pre_property |-> property, outcome |-> All("ok"), calls |-> NoCalls,
             prev |-> [op |-> "none", pre_state |-> "matrix", ok |-> TRUE]]
  /\ steps = 0
  /\ lq = LayoutIdle
  /\ res = All(RZero)
  /\ matB = NoMatrix
  /\ matC = NoMatrix
  /\ pc = All("H5Dwrite")
  /\ trace = <<>>
  /\ ScratchIdle
  /\ TransferIdle

SaveFrame ==
  UNCHANGED <<n_mpi_processes, have_parallel_hdf5, triangulation, transfer, work, iwork, mutex, n_process_rows, n_process_columns,
              n_rows, n_columns, row_block_size, column_block_size,
              state, property, values, assigned, dense, file, ev, last, steps, lq,
              res, matB, matC>>

\* if (tmp.values.size()>0) H5Dwrite(dset_id, ...): the column band
write_band(p) ==
  /\ pc[p] = "H5Dwrite"
  /\ trace' = IF TableSize(TmpConstructed(ParallelLayout)[p]) > 0
              THEN Append(trace, Called(p, "H5Dwrite /matrix")) ELSE trace
  /\ pc' = [pc EXCEPT ![p] = "H5Fclose"]
  /\ SaveFrame

\* H5Dclose ... H5Fclose(file_id)
close_file(p) ==
  /\ pc[p] = "H5Fclose"
  /\ trace' = Append(trace, Called(p, "H5Fclose"))
  /\ pc' = [pc EXCEPT ![p] = "MPI_Barrier"]
  /\ SaveFrame

\* MPI_Barrier(tmp.grid->mpi_communicator): a process enters ...
enter_barrier(p) ==
  /\ pc[p] = "MPI_Barrier"
  /\ trace' = Append(trace, Called(p, "MPI_Barrier"))
  /\ pc' = [pc EXCEPT ![p] = "in barrier"]
  /\ SaveFrame

\* the process that writes the scalar records
RecordWriter_mut(p) == TRUE
RecordWriter(p) == p = 0

\* ... and leaves once every process has entered; then
\* if (tmp.grid->this_mpi_process==0) it goes on to the scalar records
leave_barrier(p) ==
  /\ pc[p] = "in barrier"
  /\ \A q \in Procs : pc[q] \notin {"H5Dwrite", "H5Fclose", "MPI_Barrier"}
  /\ pc' = [pc EXCEPT ![p] = IF RecordWriter(p) THEN "state" ELSE "done"]
  /\ UNCHANGED trace
  /\ SaveFrame

\* H5Fopen, H5Dcreate2 "/state", H5Dwrite(&state)
write_state(p) ==
  /\ pc[p] = "state"
  /\ trace' = Append(trace, Called(p, "H5Dwrite /state"))
  /\ pc' = [pc EXCEPT ![p] = "property"]
  /\ SaveFrame

\* H5Dcreate2 "/property", H5Dwrite(&property), the closes
write_property(p) ==
  /\ pc[p] = "property"
  /\ trace' = Append(trace, Called(p, "H5Dwrite /property"))
  /\ pc' = [pc EXCEPT ![p] = "done"]
  /\ SaveFrame

NextSaveParallel ==
  \E p \in Procs :
    \/ write_band(p)
    \/ close_file(p)
    \/ enter_barrier(p)
    \/ leave_barrier(p)
    \/ write_state(p)
    \/ write_property(p)

SpecSaveParallel == InitSaveParallel /\ [][NextSaveParallel]_vars

\* ---------------------------------------------------------------- redistribution, call by call
\* The calls a process makes inside one redistribution, in program order.
\* Here pc[p] is [path, round, at, status] and trace[p] the calls of process
\* p with their return codes.
MaxRedistributions == 2

\* copy_to(dest), the branch that redistributes
RedistributionCalls ==
  <<"MPI_Comm_group source", "MPI_Comm_group dest", "MPI_Group_union",
    "MPI_Comm_create_group", "Cblacs_gridinit", "pgemr2d", "Cblacs_gridexit",
    "MPI_Comm_free", "MPI_Group_free source", "MPI_Group_free dest",
    "MPI_Group_free union">>

\* copy_to(B, offset_A, offset_B, submatrix_size) after its Asserts
SubBlockCalls ==
  <<"MPI_Comm_compare", "Cblacs_gridinit", "pgemr2d", "Cblacs_gridexit">>

CallsOf(path) == IF path = "copy_to" THEN RedistributionCalls ELSE SubBlockCalls

\* the calls whose return code is tested with AssertThrowMPI
CheckedCalls ==
  {"MPI_Comm_group source", "MPI_Comm_group dest", "MPI_Group_union",
   "MPI_Comm_create_group", "MPI_Comm_compare"}

\* the calls every process of the union has to enter before one can leave
CollectiveCalls == {"MPI_Comm_create_group", "Cblacs_gridinit", "pgemr2d", "Cblacs_gridexit"}

\* the temporary resource a call creates when it succeeds / releases
Creates(call) ==
  CASE call = "MPI_Comm_group source" -> {"group_source"}
    [] call = "MPI_Comm_group dest" -> {"group_dest"}
    [] call = "MPI_Group_union" -> {"group_union"}
    [] call = "MPI_Comm_create_group" -> {"mpi_communicator_union"}
    [] call = "Cblacs_gridinit" -> {"union_blacs_context"}
    [] OTHER -> {}

Releases(call) ==
  CASE call = "Cblacs_gridexit" -> {"union_blacs_context"}
    [] call = "MPI_Comm_free" -> {"mpi_communicator_union"}
    [] call = "MPI_Group_free source" -> {"group_source"}
    [] call = "MPI_Group_free dest" -> {"group_dest"}
    [] call = "MPI_Group_free union" -> {"group_union"}
    [] OTHER -> {}

TemporaryResources ==
  {"group_source", "group_dest", "group_union", "mpi_communicator_union",
   "union_blacs_context"}

\* the call process p is at
At(p) == CallsOf(pc[p].path)[pc[p].at]

\* process q has entered call number k of its redistribution number round
Arrived(q, round, k) ==
  /\ pc[q].status # "threw"
  /\ \/ pc[q].round > round
     \/ pc[q].round = round /\ (pc[q].status = "returned" \/ pc[q].at >= k)

\* the temporary resources process p holds open: created by a call of its
\* trace that succeeded and not released by a later one
Open(p) ==
  {r \in TemporaryResources :
     Cardinality({i \in DOMAIN trace[p] : trace[p][i].ierr = 0 /\ r \in Creates(trace[p][i].call)})
       > Cardinality({i \in DOMAIN trace[p] : r \in Releases(trace[p][i].call)})}

InitCalls ==
  /\ have_parallel_hdf5 = FALSE
  /\ n_mpi_processes \in 1 .. MaxProcs
  /\ \E rc \in GridShapes(n_mpi_processes) :
       /\ n_process_rows = rc[1]
       /\ n_process_columns = rc[2]
  /\ n_rows = 1
  /\ n_columns \in 1 .. 2
  /\ row_block_size = 1
  /\ column_block_size = 1
  /\ state = All("matrix")
  /\ property = All("general")
  /\ values = [p \in Procs |-> ConstructedValues(This, p)]
  /\ assigned = NoDense
  /\ dense = All(NoDense)
  /\ file = NoFile
  /\ ev = All(<<>>)
  /\ last = [op |-> "construct", arg |-> <<>>, pre_state |-> All("matrix"),
             pre_property |-> property, outcome |-> All("ok"), calls |-> NoCalls,
             prev |-> [op |-> "none", pre_state |-> "matrix", ok |-> TRUE]]
  /\ steps = 0
  /\ lq = LayoutIdle
  /\ res = All(RZero)
  /\ \E rc \in GridShapes(n_mpi_processes) :
       matB = MadeOn(OtherGrid, ThisComm, rc[1], rc[2],
                     n_rows, n_columns, row_block_size, column_block_size)
  /\ matC = NoMatrix
  /\ \E path \in {"copy_to", "copy_to block"} :
       pc = All([path |-> path, round |-> 1, at |-> 1, status |-> "running"])
  /\ trace = All(<<>>)
  /\ ScratchIdle
  /\ TransferIdle

CallsFrame ==
  UNCHANGED <<n_mpi_processes, have_parallel_hdf5, triangulation, transfer, work, iwork, mutex, n_process_rows, n_process_columns,
              n_rows, n_columns, row_block_size, column_block_size,
              state, property, values, assigned, dense, file, ev, last, steps, lq,
              res, matB, matC>>

\* Cblacs_gridinfo on the context of the grid of a matrix of layout L: the
\* process is inside that context
in_context(L, p) == mpi_process_is_active(L, p)

\* the descriptor and the data pointer process p passes to pgemr2d for an
\* operand of layout L whose local array has size entries: copy_to(dest)
\* passes the member descriptor; copy_to(B, ...) copies it when the process is
\* in the operand's context and otherwise sets the context entry alone
Operand_mut(path, L, p, size) ==
  [desc |-> LocalMembers(L, p).descriptor,
   loc_vals |-> "values"]

Operand(path, L, p, size) ==
  [desc |-> IF path = "copy_to" \/ in_context(L, p)
            THEN LocalMembers(L, p).descriptor
            ELSE [i \in {2} |-> -1],
   loc_vals |-> IF in_context(L, p) /\ size # 0 THEN "values" ELSE "nullptr"]

\* what process p passes with the call it is at
Arguments(p) ==
  IF At(p) = "pgemr2d"
  THEN <<Operand(pc[p].path, This, p, TableSize(values[p])),
         Operand(pc[p].path, LayoutOf(matB), p, TableSize(matB.values[p]))>>
  ELSE <<>>

\* process p after its call returned ierr: AssertThrowMPI(ierr) leaves the
\* function at once, otherwise p goes on to the next call or returns
AfterCall(at, ierr) ==
  IF ierr # 0 THEN [at EXCEPT !.status = "threw"]
  ELSE IF at.at = Len(CallsOf(at.path)) THEN [at EXCEPT !.status = "returned"]
  ELSE [at EXCEPT !.at = at.at + 1]

MadeCall(p, ierr) ==
  /\ At(p) \in CollectiveCalls => \A q \in Procs : Arrived(q, pc[p].round, pc[p].at)
  /\ trace' = [trace EXCEPT ![p] = Append(@, [call |-> At(p), ierr |-> ierr,
                                              arguments |-> Arguments(p)])]
  /\ pc' = [pc EXCEPT ![p] = AfterCall(@, ierr)]
  /\ CallsFrame

\* an MPI call followed by AssertThrowMPI(ierr)
checked_call(p) ==
  /\ pc[p].status = "running"
  /\ At(p) \in CheckedCalls
  /\ \E ierr \in {0, 1} : MadeCall(p, ierr)

\* a call whose result is not looked at
unchecked_call(p) ==
  /\ pc[p].status = "running"
  /\ At(p) \notin CheckedCalls
  /\ MadeCall(p, 0)

\* the caller redistributes once more
call_again(p) ==
  /\ pc[p].status = "returned"
  /\ pc[p].round < MaxRedistributions
  /\ pc' = [pc EXCEPT ![p] = [path |-> pc[p].path, round |-> pc[p].round + 1,
                               at |-> 1, status |-> "running"]]
  /\ UNCHANGED trace
  /\ CallsFrame

NextCalls ==
  \E p \in Procs :
    \/ checked_call(p)
    \/ unchecked_call(p)
    \/ call_again(p)

SpecCalls == InitCalls /\ [][NextCalls]_vars

\* ------------------------------------------------ the workspace, call by call
\* Two threads of one process call workspace-using operations on the same
\* matrix object; each operation is followed statement by statement through
\* its use of the members work, iwork and mutex.  The Asserts on state and
\* property precede the lock and are taken to pass.
MaxThreads == 2
WorkspaceDim == 2
Threads == 1 .. MaxThreads

\* LWORK and LIWORK as a workspace query may report them in work[0], iwork[0]
QuerySizes == {2, 3}
IntegerQuerySizes == {0, 2}

TwoCallOperations ==
  {"eigenpairs_symmetric", "eigenpairs_symmetric_by_index", "compute_SVD",
   "least_squares", "reciprocal_condition_number"}
NormOperations == {"l1_norm", "linfty_norm", "frobenius_norm"}
WorkspaceOperations == TwoCallOperations \cup NormOperations

\* the kernel an operation invokes; the norms dispatch on the property
kernel(op, prop) ==
  CASE op = "eigenpairs_symmetric" -> "psyev"
    [] op = "eigenpairs_symmetric_by_index" -> "psyevx"
    [] op = "compute_SVD" -> "pgesvd"
    [] op = "least_squares" -> "pgels"
    [] op = "reciprocal_condition_number" -> "ppocon"
    [] OTHER -> IF prop = "symmetric" THEN "plansy" ELSE "plange"

\* the statements of an operation that touch mutex, work or iwork, in order
StepsOf_mut(op, active) ==
  IF ~active THEN <<"lock", "unlock">>
  ELSE IF op \in TwoCallOperations
       THEN <<"lock", "resize", "query", "size", "compute", "unlock">>
       ELSE <<"resize", "compute", "unlock">>

StepsOf(op, active) ==
  IF ~active THEN <<"lock", "unlock">>
  ELSE IF op \in TwoCallOperations
       THEN <<"lock", "resize", "query", "size", "compute", "unlock">>
       ELSE <<"lock", "resize", "compute", "unlock">>

Running(t) == mpi_process_is_active(This, pc[t].rank)
Program(t) == StepsOf(pc[t].op, Running(t))
Statement(t) ==
  IF pc[t].at <= Len(Program(t)) THEN Program(t)[pc[t].at] ELSE "done"

\* std::vector::resize keeps the leading elements and zero-fills new ones
Resized(buf, n) ==
  Buffer(n, IF n > 0 /\ buf.size > 0 THEN buf.front ELSE 0)
\* a kernel writing its optimal size to the first element
Written(buf, v) == IF buf.size > 0 THEN Buffer(buf.size, v) ELSE buf

\* lwork of norm_general and norm_symmetric
NormWork(op, prop, L, p) ==
  LET lcm == CHOOSE m \in 1 .. (L.R * L.C) :
               /\ m % L.R = 0 /\ m % L.C = 0
               /\ \A k \in 1 .. (m - 1) : ~(k % L.R = 0 /\ k % L.C = 0)
      v2 == lcm \div L.R
      Np0 == numroc(L.n_columns, L.row_block_size, this_process_row(L, p),
                    first_process_row, L.R)
      Nq0 == numroc(L.n_columns, L.column_block_size, this_process_column(L, p),
                    first_process_column, L.C)
      v1 == (Np0 + L.row_block_size - 1) \div L.row_block_size
      ldw == IF n_local_rows(L, p) = n_local_columns(L, p) THEN 0
             ELSE L.row_block_size * ((v1 + v2 - 1) \div v2)
  IN IF op = "frobenius_norm" THEN 0
     ELSE IF prop = "symmetric" THEN 2 * Nq0 + Np0 + ldw
     ELSE IF op = "l1_norm" THEN n_local_columns(L, p)
     ELSE n_local_rows(L, p)

Touched(t, call, lwork, size, out, info) ==
  [thread |-> t, call |-> call, kernel |-> kernel(pc[t].op, property[pc[t].rank]),
   lwork |-> lwork, size |-> size, out |-> out, info |-> info,
   held |-> mutex = t]

InitWorkspace ==
  /\ have_parallel_hdf5 = TRUE
  /\ n_mpi_processes \in 1 .. 2
  /\ n_process_rows = 1
  /\ n_process_columns = 1
  /\ n_rows = WorkspaceDim
  /\ n_columns = WorkspaceDim
  /\ row_block_size = 1
  /\ column_block_size = 1
  /\ state = All("matrix")
  /\ property \in {All("general"), All("symmetric")}
  /\ values = [p \in Procs |-> ConstructedValues(This, p)]
  /\ assigned = NoDense
  /\ dense = All(NoDense)
  /\ file = NoFile
  /\ ev = All(<<>>)
  /\ last = [op |-> "construct", arg |-> <<>>, pre_state |-> All("matrix"),
             pre_property |-> property, outcome |-> All("ok"), calls |-> NoCalls,
             prev |-> [op |-> "none", pre_state |-> "matrix", ok |-> TRUE]]
  /\ steps = 0
  /\ lq = LayoutIdle
  /\ res = All(RZero)
  /\ matB = NoMatrix
  /\ matC = NoMatrix
  /\ \E p \in Procs :
       pc \in [Threads -> {[op |-> o, rank |-> p, at |-> 1, lwork |-> 0,
                            status |-> "running"] : o \in WorkspaceOperations}]
  /\ trace = <<>>
  /\ ScratchIdle
  /\ TransferIdle

WorkspaceFrame ==
  UNCHANGED <<n_mpi_processes, have_parallel_hdf5, triangulation, transfer, n_process_rows, n_process_columns,
              n_rows, n_columns, row_block_size, column_block_size,
              values, assigned, dense, file, ev, last, steps, lq,
              res, matB, matC>>

Goes(t, status) ==
  [pc[t] EXCEPT !.at = IF status = "running" THEN pc[t].at + 1
                       ELSE Len(Program(t)),
                !.status = status]

\* Threads::Mutex::ScopedLock lock (mutex): waits until the mutex is free
lock(t) ==
  /\ Statement(t) = "lock"
  /\ mutex = NoThread
  /\ mutex' = t
  /\ pc' = [pc EXCEPT ![t] = Goes(t, "running")]
  /\ UNCHANGED <<work, iwork, trace, state, property>>
  /\ WorkspaceFrame

\* work.resize(1), iwork.resize(1), iwork.resize(liwork), work.resize(lwork)
\* ahead of the first kernel call
resize(t) ==
  /\ Statement(t) = "resize"
  /\ LET op == pc[t].op
         p == pc[t].rank
         n == IF op \in TwoCallOperations THEN 1
              ELSE NormWork(op, property[p], This, p)
     IN /\ work' = Resized(work, n)
        /\ iwork' = IF op \in {"eigenpairs_symmetric", "eigenpairs_symmetric_by_index"}
                    THEN Resized(iwork, 1)
                    ELSE IF op = "reciprocal_condition_number"
                         THEN Resized(iwork, n_local_rows(This, p))
                         ELSE iwork
        /\ pc' = [pc EXCEPT ![t] = [Goes(t, "running") EXCEPT !.lwork = n]]
        /\ trace' = Append(trace, Touched(t, "resize", n, n, 0, 0))
  /\ UNCHANGED <<mutex, state, property>>
  /\ WorkspaceFrame

\* the kernel with lwork = -1, then AssertThrow (info==0, ...)
query(t) ==
  /\ Statement(t) = "query"
  /\ \E info \in {0, 1}, out \in QuerySizes, iout \in IntegerQuerySizes :
       /\ work' = IF info = 0 THEN Written(work, out) ELSE work
       /\ iwork' = IF info = 0 /\ pc[t].op = "eigenpairs_symmetric_by_index"
                   THEN Written(iwork, iout) ELSE iwork
       /\ trace' = Append(trace, Touched(t, "query", -1, work.size, out, info))
       /\ pc' = [pc EXCEPT ![t] = Goes(t, IF info = 0 THEN "running" ELSE "throwing")]
  /\ UNCHANGED <<mutex, state, property>>
  /\ WorkspaceFrame

\* lwork = work[0]
SizeRead_mut(buf) == 1

SizeRead(buf) == buf.front

\* lwork=work[0]; work.resize (lwork); on the psyevx path also
\* liwork = iwork[0]; AssertThrow(liwork>0, ...); iwork.resize(liwork)
read_size(t) ==
  /\ Statement(t) = "size"
  /\ LET lwork == SizeRead(work)
         liwork == iwork.front
         subset == pc[t].op = "eigenpairs_symmetric_by_index"
     IN /\ work' = Resized(work, lwork)
        /\ iwork' = IF subset /\ liwork > 0 THEN Resized(iwork, liwork) ELSE iwork
        /\ trace' = Append(trace, Touched(t, "size", lwork, lwork, 0, 0))
        /\ pc' = [pc EXCEPT ![t] =
                    [Goes(t, IF subset /\ liwork <= 0 THEN "throwing" ELSE "running")
                       EXCEPT !.lwork = lwork]]
  /\ UNCHANGED <<mutex, state, property>>
  /\ WorkspaceFrame

\* the kernel on the sized workspace, then AssertThrow (info==0, ...); plange
\* and plansy report no status
compute(t) ==
  /\ Statement(t) = "compute"
  /\ \E info \in (IF pc[t].op \in TwoCallOperations THEN {0, 1} ELSE {0}) :
       /\ trace' = Append(trace, Touched(t, "compute", pc[t].lwork, work.size, 0, info))
       /\ pc' = [pc EXCEPT ![t] = Goes(t, IF info = 0 THEN "running" ELSE "throwing")]
  /\ UNCHANGED <<work, iwork, mutex, state, property>>
  /\ WorkspaceFrame

\* the end of the function, reached by return or by the exception: on return
\* the eigendecompositions (eigenvalues only), compute_SVD and least_squares
\* leave state = unusable and compute_SVD property = general; the ScopedLock
\* releases the mutex
unlock(t) ==
  /\ Statement(t) = "unlock"
  /\ LET p == pc[t].rank
         returns == pc[t].status = "running"
     IN /\ state' = IF returns /\ pc[t].op \in TwoCallOperations
                                /\ pc[t].op # "reciprocal_condition_number"
                    THEN [state EXCEPT ![p] = "unusable"]
                    ELSE state
        /\ property' = IF returns /\ pc[t].op = "compute_SVD"
                       THEN [property EXCEPT ![p] = "general"]
                       ELSE property
        /\ pc' = [pc EXCEPT ![t] = [pc[t] EXCEPT !.at = pc[t].at + 1,
                                               !.status = IF returns THEN "returned"
                                                          ELSE "threw"]]
  /\ mutex' = IF mutex = t THEN NoThread ELSE mutex
  /\ UNCHANGED <<work, iwork, trace>>
  /\ WorkspaceFrame

NextWorkspace ==
  \E t \in Threads :
    lock(t) \/ resize(t) \/ query(t) \/ read_size(t) \/ compute(t) \/ unlock(t)

SpecWorkspace == InitWorkspace /\ [][NextWorkspace]_vars

\* ---------------------------------------------------------------- the eigenvalue selection specification
\* A symmetric matrix diag(1, 2, ..., n) has been assigned; one
\* eigendecomposition follows, through either public entry or through
\* eigenpairs_symmetric with both selectors as arguments.
MaxEigenDim == 3

Fdiagonal(n) == Full(n, n, [ij \in Idx(n, n) |-> IF ij[1] = ij[2] THEN Num(ij[1] + 1)
                                                 ELSE RZero])

\* what a caller of eigenpairs_symmetric itself may pass: either selector
\* given or left at its default
SelectingValueLimits == ValueLimits \cup {<<NaN, NaN>>}
SelectingIndexLimits ==
  ((0 .. (n_rows - 1)) \X (0 .. (n_rows - 1)))
  \cup {<<invalid_unsigned_int, invalid_unsigned_int>>}

InitSelecting ==
  /\ have_parallel_hdf5 = FALSE
  /\ n_mpi_processes \in 1 .. MaxProcs
  /\ \E rc \in GridShapes(n_mpi_processes) :
       /\ n_process_rows = rc[1]
       /\ n_process_columns = rc[2]
  /\ n_rows \in 1 .. MaxEigenDim
  /\ n_columns = n_rows
  /\ row_block_size \in {1, n_rows}
  /\ column_block_size = row_block_size
  /\ state = All("matrix")
  /\ property = All("symmetric")
  /\ values = [p \in Procs |->
                 IF mpi_process_is_active(This, p)
                 THEN AssignLocal(This, p, ConstructedValues(This, p), Fdiagonal(n_rows))
                 ELSE ConstructedValues(This, p)]
  /\ assigned = Fdiagonal(n_rows)
  /\ dense = All(NoDense)
  /\ file = NoFile
  /\ ev = All(<<>>)
  /\ last = [op |-> "assign", arg |-> <<>>, pre_state |-> All("matrix"),
             pre_property |-> property, outcome |-> All("ok"), calls |-> NoCalls,
             prev |-> [op |-> "construct", pre_state |-> "matrix", ok |-> TRUE]]
  /\ steps = MaxSteps - 1
  /\ lq = LayoutIdle
  /\ res = All(RZero)
  /\ pc = <<>>
  /\ trace = <<>>
  /\ ScratchIdle
  /\ TransferIdle
  /\ matB = NoMatrix
  /\ matC = NoMatrix

\* ScaLAPACKMatrix::eigenpairs_symmetric(compute_eigenvectors, eigenvalue_idx,
\* eigenvalue_limits) with both selectors given by the caller
eigenpairs_symmetric_selecting ==
  /\ CanStep
  /\ \E eigenvalue_idx \in SelectingIndexLimits, eigenvalue_limits \in SelectingValueLimits,
        compute_eigenvectors \in BOOLEAN, fail \in 0 .. 2 :
       EigenCore("eigenpairs_symmetric",
                 <<compute_eigenvectors, eigenvalue_idx, eigenvalue_limits>>,
                 compute_eigenvectors, eigenvalue_idx, eigenvalue_limits, fail)
  /\ EigenFrame

NextSelecting ==
  \/ eigenpairs_symmetric_by_index
  \/ eigenpairs_symmetric_by_value
  \/ eigenpairs_symmetric_selecting

SpecSelecting == InitSelecting /\ [][NextSelecting]_vars

\* ---------------------------------------------------------------- the triangular fill on any shape
MaxMirrorDim == 3

\* the entries (i,j) the loops at the end of copy_to(FullMatrix) assign, with
\* m = matrix.m() rows and n = matrix.n() columns: the outer index i is bounded
\* by n and used as the row, the inner index j is bounded by m (lower) or by i
\* (upper) and used as the column
MirrorWrites(m, n, prop) ==
  IF prop = "lower_triangular"
  THEN {ij \in (0 .. (n - 1)) \X (0 .. (m - 1)) : ij[2] >= ij[1] + 1}
  ELSE IF prop = "upper_triangular"
  THEN {ij \in (0 .. (n - 1)) \X (0 .. (n - 1)) : ij[2] < ij[1]}
  ELSE {}

\* the entries matrix(j,i) the same loops read: only for an inverse
MirrorReads(m, n, prop, st) ==
  IF st = "inverse_matrix" THEN {<<ij[2], ij[1]>> : ij \in MirrorWrites(m, n, prop)} ELSE {}

\* the accesses a FullMatrix of m rows and n columns has an entry for
WithinMatrix(m, n, accesses) == accesses \subseteq Idx(m, n)

\* the fill when every access is inside the matrix
FilledDense(el, m, n, prop, st) ==
  [ij \in DOMAIN el |->
     IF ij \in MirrorWrites(m, n, prop)
     THEN (IF st = "inverse_matrix" THEN el[<<ij[2], ij[1]>>] ELSE RZero)
     ELSE el[ij]]

\* what an access outside the FullMatrix leads to: the index check of the
\* table in a debug build, or in an optimised build a fault or a write to
\* memory that is not an entry of the matrix
OutOfRangeOutcomes == {"rejected", "aborted", "ok"}

\* the dense matrices assigned before the fill: distinct entries, or the
\* identity, whose factor and inverse are the identity again
MirrorInputs(m, n) == {Fdistinct(m, n)} \cup (IF m = n THEN {Fident(n)} ELSE {})

\* a matrix of any shape holding a replicated dense matrix
InitMirror ==
  /\ have_parallel_hdf5 = FALSE
  /\ n_mpi_processes \in 1 .. MaxProcs
  /\ \E rc \in GridShapes(n_mpi_processes) :
       /\ n_process_rows = rc[1]
       /\ n_process_columns = rc[2]
  /\ n_rows \in 1 .. MaxMirrorDim
  /\ n_columns \in 1 .. MaxMirrorDim
  /\ row_block_size \in {1, n_rows}
  /\ column_block_size \in {1, n_columns}
  /\ state = All("matrix")
  /\ property = All("general")
  /\ \E F \in MirrorInputs(n_rows, n_columns) :
       /\ values = [p \in Procs |->
                      IF mpi_process_is_active(This, p)
                      THEN AssignLocal(This, p, ConstructedValues(This, p), F)
                      ELSE ConstructedValues(This, p)]
       /\ assigned = F
  /\ dense = All(NoDense)
  /\ file = NoFile
  /\ ev = All(<<>>)
  /\ last = [op |-> "assign", arg |-> <<>>, pre_state |-> All("matrix"),
             pre_property |-> property, outcome |-> All("ok"), calls |-> NoCalls,
             prev |-> [op |-> "construct", pre_state |-> "matrix", ok |-> TRUE]]
  /\ steps = 0
  /\ lq = LayoutIdle
  /\ res = All(RZero)
  /\ pc = <<>>
  /\ trace = <<>>
  /\ ScratchIdle
  /\ TransferIdle
  /\ matB = NoMatrix
  /\ matC = NoMatrix

\* ScaLAPACKMatrix::copy_to(FullMatrix &) on a matrix of any shape, the
\* argument holding zeros: the gathered sum, then the triangular fill with
\* its accesses recorded
copy_to_dense_filling ==
  /\ CanStep
  /\ LET m == n_rows
         n == n_columns
         prop == PropertyNow
         st == StateNow
         writes == MirrorWrites(m, n, prop)
         reads == MirrorReads(m, n, prop, st)
         gathered == CopiedDense(This, values, All(PriorDense("zero", m, n)),
                                 All("general"), state)
     IN  /\ trace' = <<[call |-> "fill", reads |-> reads, writes |-> writes]>>
         /\ IF WithinMatrix(m, n, reads \cup writes)
            THEN /\ dense' = [p \in Procs |->
                                Full(m, n, FilledDense(gathered[p].el, m, n, prop, st))]
                 /\ last' = Record("copy_to_dense", <<"zero">>, All("ok"), NoCalls)
            ELSE \E outcome \in OutOfRangeOutcomes :
                   /\ dense' = IF outcome = "ok"
                               THEN [p \in Procs |->
                                       Full(m, n,
                                            [ij \in Idx(m, n) |->
                                               IF ij \in writes /\ <<ij[2], ij[1]>> \in Idx(m, n)
                                               THEN FilledDense(gathered[p].el, m, n, prop, st)[ij]
                                               ELSE gathered[p].el[ij]])]
                               ELSE dense
                   /\ last' = Record("copy_to_dense", <<"zero">>, All(outcome), NoCalls)
  /\ steps' = steps + 1
  /\ UNCHANGED <<res, matB, matC, n_mpi_processes, have_parallel_hdf5, triangulation, transfer, pc, work, iwork, mutex,
                 n_process_rows, n_process_columns,
                 n_rows, n_columns, row_block_size, column_block_size,
                 state, property, values, assigned, file, ev, lq>>

NextMirror == set_property \/ invert \/ copy_to_dense_filling
SpecMirror == InitMirror /\ [][NextMirror]_vars

\* ---------------------------------------------------------------- cell data transfer
\* A triangulation of one coarse cell, each refinement giving a cell the
\* same number of children (two: bisection).  Cell 1 is the coarse cell and
\* the cells of a level are numbered after those of the level above, parent
\* by parent, in the order active_cell_iterators() visits them.
MaxLevel == 3
MaxCells == 4
n_children_per_cell == 2

parent(c) == ((c - 2) \div n_children_per_cell) + 1
child(c, child_index) == n_children_per_cell * (c - 1) + 2 + child_index
RECURSIVE level(_)
level(c) == IF c = 1 THEN 0 ELSE 1 + level(parent(c))
ChildIndices == 0 .. (n_children_per_cell - 1)
children(c) == {child(c, k) : k \in ChildIndices}

RECURSIVE Descends(_, _)
Descends(a, c) == a > c /\ (parent(a) = c \/ Descends(parent(a), c))

\* cell->active(), cell->n_children() and cell->active_cell_index() in a
\* triangulation whose active cells are A; a cell that is neither active nor
\* refined is not part of the triangulation any more
has_children(A, c) == \E a \in A : Descends(a, c)
InUse(A, c) == c \in A \/ has_children(A, c)
n_children(A, c) == IF has_children(A, c) THEN n_children_per_cell ELSE 0
active_cell_index(A, c) == Cardinality({a \in A : a < c})

Mesh(A, refine, coarsen) ==
  [active |-> A, refine_flag |-> refine, coarsen_flag |-> coarsen]

\* the active cells after the flags of T have been executed: a refine-flagged
\* cell is replaced by its children, the children of a parent by the parent
\* when all of them are active and coarsen-flagged
Coarsenable(T, c) ==
  /\ c \in T.active /\ c \in T.coarsen_flag /\ level(c) > 0
  /\ \A s \in children(parent(c)) : s \in T.active /\ s \in T.coarsen_flag
Executed(T) ==
  LET refined == T.active \cap T.refine_flag
      coarsened == {c \in T.active : Coarsenable(T, c)}
  IN  ((T.active \ refined) \ coarsened)
        \cup UNION {children(c) : c \in refined}
        \cup {parent(c) : c \in coarsened}

\* the data vectors handed to unpack: one entry per formerly active cell
Distinct(n) == [i \in 0 .. (n - 1) |-> 10 + i]
Equal(n) == [i \in 0 .. (n - 1) |-> 10]
InVectors(n) == {Distinct(n), Equal(n)}
NoVector == <<>>

\* coarsening_strategy is supplied by the caller: left uninterpreted
coarsening_strategy(children_values) == [coarsened_from |-> children_values]

\* the values in[i] for the indices of a std::set, in increasing order
RECURSIVE InOrder(_, _)
InOrder(indices, in) ==
  IF indices = {} THEN <<>>
  ELSE LET i == CHOOSE x \in indices : \A y \in indices : x <= y
       IN  <<in[i]>> \o InOrder(indices \ {i}, in)

\* the three containers after .clear()
Cleared_mut(container) == container
Cleared(container) == {}

\* CellDataTransfer::CellDataTransfer on the coarse mesh
InitTransfer ==
  /\ have_parallel_hdf5 = FALSE
  /\ n_mpi_processes = 1
  /\ n_process_rows = 1
  /\ n_process_columns = 1
  /\ n_rows = 1
  /\ n_columns = 1
  /\ row_block_size = 1
  /\ column_block_size = 1
  /\ state = All("matrix")
  /\ property = All("general")
  /\ values = [p \in Procs |-> ConstructedValues(This, p)]
  /\ assigned = NoDense
  /\ dense = All(NoDense)
  /\ file = NoFile
  /\ ev = All(<<>>)
  /\ last = [op |-> "construct", arg |-> <<>>, pre_state |-> All("matrix"),
             pre_property |-> property, outcome |-> All("ok"), calls |-> NoCalls,
             prev |-> [op |-> "none", pre_state |-> "matrix", ok |-> TRUE]]
  /\ steps = 0
  /\ lq = LayoutIdle
  /\ res = All(RZero)
  /\ pc = <<>>
  /\ trace = <<>>
  /\ ScratchIdle
  /\ matB = NoMatrix
  /\ matC = NoMatrix
  /\ triangulation = Mesh({1}, {}, {})
  /\ transfer = [refined_cells_active_index |-> {},
                 coarsened_cells_active_index |-> {},
                 persisting_cells_active_index |-> {},
                 n_active_cells_pre |-> invalid_unsigned_int,
                 in |-> NoVector, out |-> NoVector, written |-> NoVector,
                 outcome |-> "ok", calls |-> <<>>, pre |-> {}]

TransferFrame ==
  UNCHANGED <<n_mpi_processes, have_parallel_hdf5, pc, trace, work, iwork, mutex,
              n_process_rows, n_process_columns,
              n_rows, n_columns, row_block_size, column_block_size,
              state, property, values, assigned, dense, file, ev, last, steps, lq,
              res, matB, matC>>

\* a failed Assert ends the program
TransferRuns == transfer.outcome = "ok"

\* the vectors of an unpack belong to its caller: they are gone when the
\* next call is made
Returned == [transfer EXCEPT !.in = NoVector, !.out = NoVector, !.written = NoVector]

\* the last three calls on the triangulation and the transfer object
ThenCalled(name) ==
  LET all == Append(transfer.calls, name)
  IN  IF Len(all) > 3 THEN Tail(all) ELSE all

\* cell->set_refine_flag() / cell->set_coarsen_flag() / clear on the active
\* cells: any flags, as long as the refined mesh stays within the bounds
set_flags ==
  /\ TransferRuns
  /\ \E refine \in SUBSET {c \in triangulation.active : level(c) < MaxLevel} :
       \E coarsen \in SUBSET (triangulation.active \ refine) :
         /\ <<refine, coarsen>> # <<triangulation.refine_flag, triangulation.coarsen_flag>>
         /\ Cardinality(Executed(Mesh(triangulation.active, refine, coarsen))) <= MaxCells
         /\ triangulation' = Mesh(triangulation.active, refine, coarsen)
  /\ transfer' = [Returned EXCEPT !.calls = ThenCalled("set_flags")]
  /\ TransferFrame

\* CellDataTransfer::prepare_for_coarsening_and_refinement
prepare_for_coarsening_and_refinement ==
  /\ TransferRuns
  /\ LET A == triangulation.active
         refine_flag_set(c) == c \in triangulation.refine_flag
         coarsen_flag_set(c) == c \in triangulation.coarsen_flag
         flagged == {c \in A : ~refine_flag_set(c) /\ coarsen_flag_set(c)}
         asserted == \A c \in flagged :
                       /\ level(c) > 0
                       /\ \A sibling \in children(parent(c)) :
                            sibling \in A /\ coarsen_flag_set(sibling)
     IN  IF asserted
         THEN transfer' =
                [Returned EXCEPT
                   !.refined_cells_active_index =
                      Cleared(@) \cup {<<c, active_cell_index(A, c)>> :
                                         c \in {x \in A : refine_flag_set(x)}},
                   !.coarsened_cells_active_index =
                      Cleared(@) \cup {<<parent(c), {active_cell_index(A, sibling) :
                                                       sibling \in children(parent(c))}>> :
                                         c \in flagged},
                   !.persisting_cells_active_index =
                      Cleared(@) \cup {<<c, active_cell_index(A, c)>> :
                                         c \in {x \in A : ~refine_flag_set(x)
                                                          /\ ~coarsen_flag_set(x)}},
                   !.n_active_cells_pre = Cardinality(A),
                   !.calls = ThenCalled("prepare"),
                   !.pre = A]
         ELSE transfer' = [transfer EXCEPT !.outcome = "rejected",
                                           !.calls = ThenCalled("prepare")]
  /\ UNCHANGED triangulation
  /\ TransferFrame

\* Triangulation::execute_coarsening_and_refinement: the flags are carried
\* out and cleared
execute_coarsening_and_refinement ==
  /\ TransferRuns
  /\ triangulation' = Mesh(Executed(triangulation), {}, {})
  /\ transfer' = [Returned EXCEPT !.calls = ThenCalled("execute")]
  /\ TransferFrame

\* the assignments out[...] = ... of unpack, as <<index, value, loop>>, the
\* loops numbered in the order they run
Assignments(A, in) ==
  {<<active_cell_index(A, persisting[1]), in[persisting[2]], 1>> :
     persisting \in transfer.persisting_cells_active_index}
  \cup UNION {{<<active_cell_index(A, child(refined[1], child_index)), in[refined[2]], 2>> :
                 child_index \in 0 .. (n_children(A, refined[1]) - 1)} :
                refined \in transfer.refined_cells_active_index}
  \cup {<<active_cell_index(A, coarsened[1]),
          coarsening_strategy(InOrder(coarsened[2], in)), 3>> :
          coarsened \in transfer.coarsened_cells_active_index}

\* CellDataTransfer::unpack(in, out), out arriving with no entry set
unpack ==
  /\ TransferRuns
  /\ LET A == triangulation.active
         cells == {r[1] : r \in transfer.persisting_cells_active_index}
                    \cup UNION {{child(r[1], k) : k \in 0 .. (n_children(A, r[1]) - 1)} :
                                  r \in transfer.refined_cells_active_index}
                    \cup {r[1] : r \in transfer.coarsened_cells_active_index}
         records == {r[1] : r \in transfer.persisting_cells_active_index
                                    \cup transfer.refined_cells_active_index
                                    \cup transfer.coarsened_cells_active_index}
     IN  IF transfer.n_active_cells_pre = invalid_unsigned_int
         THEN \* Assert (in.size() == n_active_cells_pre)
              transfer' = [transfer EXCEPT !.outcome = "rejected", !.calls = ThenCalled("unpack")]
         ELSE IF \E c \in records : ~InUse(A, c)
         THEN \* an iterator to a cell that was coarsened away
              \E outcome \in {"rejected", "aborted"} :
                transfer' = [transfer EXCEPT !.outcome = outcome, !.calls = ThenCalled("unpack")]
         ELSE IF \E c \in cells : c \notin A
         THEN \* Assert (...->active())
              transfer' = [transfer EXCEPT !.outcome = "rejected", !.calls = ThenCalled("unpack")]
         ELSE \E in \in InVectors(transfer.n_active_cells_pre) :
                LET made == Assignments(A, in)
                    at(i) == {a \in made : a[1] = i}
                    final(i) == CHOOSE a \in at(i) : \A b \in at(i) : b[3] <= a[3]
                IN  transfer' =
                      [transfer EXCEPT
                         !.in = in,
                         !.out = [i \in 0 .. (Cardinality(A) - 1) |->
                                    IF at(i) = {} THEN "unset" ELSE final(i)[2]],
                         !.written = [i \in 0 .. (Cardinality(A) - 1) |-> Cardinality(at(i))],
                         !.calls = ThenCalled("unpack")]
  /\ UNCHANGED triangulation
  /\ TransferFrame

NextTransfer ==
  \/ set_flags
  \/ prepare_for_coarsening_and_refinement
  \/ execute_coarsening_and_refinement
  \/ unpack
SpecTransfer == InitTransfer /\ [][NextTransfer]_vars

\* ---------------------------------------------------------------- claims
AllOk == \A p \in Procs : last.outcome[p] = "ok"
AllRejected == \A p \in Procs : last.outcome[p] = "rejected"
EigenOps == {"eigenpairs_symmetric", "eigenpairs_symmetric_by_index",
             "eigenpairs_symmetric_by_value"}

\* the (process coordinate, local index) pairs of the queried dimension, laid
\* out along the rows of an nprocs x 1 grid and along the columns of a
\* 1 x nprocs grid
LocalRowPairs ==
  {cl \in (0 .. (lq.nprocs - 1)) \X (0 .. (lq.n - 1)) :
     cl[2] < n_local_rows(RowLayout(lq.n, lq.nb, lq.nprocs), cl[1])}
LocalColumnPairs ==
  {cl \in (0 .. (lq.nprocs - 1)) \X (0 .. (lq.n - 1)) :
     cl[2] < n_local_columns(ColumnLayout(lq.n, lq.nb, lq.nprocs), cl[1])}
GlobalRowOf(cl) == global_row(RowLayout(lq.n, lq.nb, lq.nprocs), cl[1], cl[2])
GlobalColumnOf(cl) == global_column(ColumnLayout(lq.n, lq.nb, lq.nprocs), cl[1], cl[2])

\* C1: every local index within the local extent of a process coordinate maps
\* to a global index of the dimension; the global index g is produced by
\* global_row, and by global_column, for exactly one (coordinate, local index)
\* pair, which is its (owner, local index); mapping that pair back gives g.
C1_LayoutRoundTrip ==
  /\ \A cl \in LocalRowPairs : GlobalRowOf(cl) \in 0 .. (lq.n - 1)
  /\ \A cl \in LocalColumnPairs : GlobalColumnOf(cl) \in 0 .. (lq.n - 1)
  /\ {cl \in LocalRowPairs : GlobalRowOf(cl) = lq.g} = {<<lq.owner, lq.loc>>}
  /\ {cl \in LocalColumnPairs : GlobalColumnOf(cl) = lq.g} = {<<lq.owner, lq.loc>>}
  /\ lq.back = lq.g

\* a global index in a second round of blocks, on a process other than the first
C1_Witness ==
  /\ lq.nprocs > 1
  /\ lq.nb > 1
  /\ lq.g >= lq.nb * lq.nprocs
  /\ lq.owner > 0
  /\ lq.n % lq.nb # 0

LowerIdx(n) == {ij \in Idx(n, n) : ij[1] >= ij[2]}

\* C2: a general matrix assigned from the replicated F and then copied to a
\* dense matrix gives dense(i,j) = F(i,j) at every (i,j) on every process.
C2_AssignCopyToDense ==
  (/\ last.op = "copy_to_dense"
   /\ last.prev.op = "assign"
   /\ PropertyNow = "general")
  => \A p \in Procs : dense[p].el = assigned.el

\* C3: a save with a valid chunk size writes the archive on every process,
\* and a load into a matrix of the archive's shape restores the saved
\* entries at every global (i,j) and the saved state and property on every
\* process.
C3_SaveLoadRoundTrip ==
  /\ (last.op = "save" /\ ChunkValid(last.arg[1])) => AllOk
  /\ (last.op = "load" /\ file.dims = <<n_columns, n_rows>>)
       => /\ AllOk
          /\ Gather(This, values) = file.saved_entries
          /\ state = file.saved_state
          /\ property = file.saved_property

\* C4: compute_cholesky_factorization called in a state other than matrix is
\* rejected on every process and calls no kernel.
C4_CholeskyOnlyFromMatrix ==
  (last.op = "compute_cholesky_factorization" /\ last.pre_state[0] # "matrix")
  => /\ AllRejected
     /\ \A p \in Procs : last.calls[p] = <<>>

\* C5: compute_cholesky_factorization on a non-square matrix is rejected and
\* changes nothing; when it succeeds, every process, active or inactive, is
\* left in state cholesky with property lower_triangular.
C5_CholeskyResult ==
  last.op = "compute_cholesky_factorization"
  => /\ n_rows # n_columns
          => AllRejected /\ state = last.pre_state /\ property = last.pre_property
     /\ AllOk => \A p \in Procs : state[p] = "cholesky" /\ property[p] = "lower_triangular"

\* a successful factorization of a 2 x 2 matrix on a grid that leaves a
\* process inactive
C5_Witness ==
  /\ last.op = "compute_cholesky_factorization"
  /\ AllOk
  /\ n_rows = 2
  /\ InactiveProcs # {}

\* C6: a successful invert() from state matrix calls ppotrf and then ppotri
\* on every active process, from state cholesky it calls ppotri only, and it
\* leaves every process in state inverse_matrix.
C6_InvertKernels ==
  (last.op = "invert" /\ AllOk)
  => /\ last.pre_state[0] = "matrix"
          => \A p \in ActiveProcs : last.calls[p] = <<"ppotrf", "ppotri">>
     /\ last.pre_state[0] = "cholesky"
          => \A p \in ActiveProcs : last.calls[p] = <<"ppotri">>
     /\ \A p \in Procs : state[p] = "inverse_matrix"

\* a successful invert() from state matrix on a grid of two active processes
C6_Witness ==
  /\ last.op = "invert"
  /\ AllOk
  /\ last.pre_state[0] = "matrix"
  /\ Cardinality(ActiveProcs) > 1

\* C7: two successful invert() calls in succession, the first on the assigned
\* matrix in state matrix, leave the stored (lower) triangle equal to that of
\* the assigned matrix.
C7_InvertTwice ==
  (/\ last.op = "invert" /\ AllOk
   /\ last.prev.op = "invert" /\ last.prev.ok /\ last.prev.pre_state = "matrix")
  => \A ij \in LowerIdx(n_rows) : Gather(This, values)[ij] = assigned.el[ij]

\* C8: the three eigenpairs_symmetric functions are rejected, without a
\* kernel call, unless the matrix is in state matrix with property symmetric.
C8_EigenRejected ==
  (/\ last.op \in EigenOps
   /\ ~(last.pre_state[0] = "matrix" /\ last.pre_property[0] = "symmetric"))
  => /\ AllRejected
     /\ \A p \in Procs : last.calls[p] = <<>>
     /\ state = last.pre_state

\* a rejected call on a symmetric matrix an earlier operation left inverted
\* or unusable
C8_Witness ==
  /\ last.op \in EigenOps
  /\ last.pre_property[0] = "symmetric"
  /\ last.pre_state[0] \in {"inverse_matrix", "unusable"}
  /\ AllRejected

\* C9: after a successful eigendecomposition every process is in state
\* eigenvalues with property general if eigenvectors were requested, and in
\* state unusable if not.
C9_EigenState ==
  (last.op \in EigenOps /\ AllOk)
  => IF last.arg[1]
     THEN \A p \in Procs : state[p] = "eigenvalues" /\ property[p] = "general"
     ELSE \A p \in Procs : state[p] = "unusable"

\* a successful eigenvalues-only call on a grid with an inactive process
C9_Witness ==
  /\ last.op \in EigenOps
  /\ AllOk
  /\ ~last.arg[1]
  /\ InactiveProcs # {}

\* C10: on every active process the local array has n_local_rows x
\* n_local_columns entries, on every inactive process it is empty.
C10_LocalBufferShape ==
  \A p \in Procs :
    IF p \in ActiveProcs
    THEN TableSize(values[p]) = n_local_rows(This, p) * n_local_columns(This, p)
    ELSE TableSize(values[p]) = 0

\* the operations that return a reduced scalar, and a reduced vector
ScalarOps == {"l1_norm", "linfty_norm", "frobenius_norm", "reciprocal_condition_number"}
VectorOps == EigenOps \cup {"compute_SVD"}

\* the number of eigenvalues a successful call recorded in last has found when
\* it selected by index (all of them when the range is the whole spectrum)
FoundByIndex ==
  Max(last.arg[2][1], last.arg[2][2]) - Min(last.arg[2][1], last.arg[2][2]) + 1

\* C11: after a successful norm or reciprocal condition number the scalar
\* returned is the same on every process, active or inactive; after a
\* successful eigenvalue or singular value computation the vector returned
\* is the same on every process, and the eigenvalue vector has as many
\* entries as eigenvalues were found (n_rows on the all-eigenpairs path).
C11_ReducedIdentical ==
  /\ (last.op \in ScalarOps /\ AllOk) => \A p, q \in Procs : res[p] = res[q]
  /\ (last.op \in VectorOps /\ AllOk) => \A p, q \in Procs : ev[p] = ev[q]
  /\ (last.op = "eigenpairs_symmetric" /\ AllOk)
       => \A p \in Procs : Len(ev[p]) = n_rows
  /\ (last.op = "eigenpairs_symmetric_by_index" /\ AllOk)
       => \A p \in Procs : Len(ev[p]) = FoundByIndex

\* a successful selection of fewer than n_rows eigenvalues, not all zero, on
\* a grid with an inactive process
C11_Witness ==
  /\ last.op = "eigenpairs_symmetric_by_index"
  /\ AllOk
  /\ InactiveProcs # {}
  /\ Len(ev[0]) < n_rows
  /\ \E k \in 1 .. Len(ev[0]) : ev[0][k] # RZero

\* the last operation was a successful selection of eigenvalues by index on
\* the identity matrix, assigned by the operation before it
IdentityByIndex ==
  /\ last.op = "eigenpairs_symmetric_by_index"
  /\ AllOk
  /\ last.prev.op = "assign"
  /\ assigned = Fident(n_rows)

\* C12 as stated: on the identity of size 5, eigenpairs_symmetric_by_index
\* returns five eigenvalues, each 1, for every index range (a,b) within 0..4.
C12_FiveOnes ==
  (IdentityByIndex /\ n_rows = 5)
  => \A p \in Procs : ev[p] = [k \in 1 .. 5 |-> ROne]

\* C12, amended: on the identity matrix eigenpairs_symmetric_by_index with
\* the index range (a,b) returns |a - b| + 1 eigenvalues, each equal to 1, on
\* every process; these are five on the identity of size 5 only when the
\* range is the whole of 0..4.
C12_IdentityByIndex ==
  IdentityByIndex => \A p \in Procs : ev[p] = [k \in 1 .. FoundByIndex |-> ROne]

\* a proper subrange of the spectrum of the identity of size 5
C12_Witness ==
  /\ IdentityByIndex
  /\ n_rows = 5
  /\ FoundByIndex < 5
  /\ Len(ev[0]) = FoundByIndex

\* M is square, of dimension dim, with the block sizes and the grid of the
\* matrix under test
SquareLike(M, dim) ==
  /\ M.n_rows = M.n_columns
  /\ M.n_rows = dim
  /\ M.row_block_size = row_block_size
  /\ M.column_block_size = column_block_size
  /\ M.grid = ThisGrid

\* C13: compute_SVD(U, VT) is rejected unless the state is matrix, the two
\* block sizes are equal, and each supplied U / VT is square, of dimension
\* n_rows / n_columns, with the block sizes and the grid of the matrix; after
\* a successful call the state is unusable on every process, whether or not
\* U and VT were supplied, and the vector returned has min(n_rows, n_columns)
\* entries on every process.
C13_Svd ==
  last.op = "compute_SVD"
  => /\ ~(/\ \A p \in Procs : last.pre_state[p] = "matrix"
          /\ row_block_size = column_block_size
          /\ last.arg[1] => SquareLike(matB, n_rows)
          /\ last.arg[2] => SquareLike(matC, n_columns))
        => (AllRejected /\ state = last.pre_state
            /\ \A p \in Procs : last.calls[p] = <<>>)
     /\ AllOk => \A p \in Procs :
                   /\ state[p] = "unusable"
                   /\ Len(ev[p]) = Min(n_rows, n_columns)

\* a successful decomposition of a non-square matrix with U and VT supplied,
\* on a grid with an inactive process
C13_Witness ==
  /\ last.op = "compute_SVD"
  /\ matB.present /\ matC.present
  /\ AllOk
  /\ last.arg = <<TRUE, TRUE>>
  /\ n_rows # n_columns
  /\ InactiveProcs # {}
  /\ state = All("unusable")

\* C14: least_squares(B, transpose) is rejected unless A and B are both in
\* state matrix, are bound to the same grid, the four block sizes are equal
\* and B.n_rows is A.n_rows (A.n_columns with transpose); after a successful
\* call A is in state unusable and B still in state matrix.
C14_LeastSquares ==
  last.op = "least_squares"
  => /\ ~(/\ \A p \in Procs : last.pre_state[p] = "matrix" /\ matB.state[p] = "matrix"
          /\ matB.grid = ThisGrid
          /\ row_block_size = column_block_size
          /\ matB.row_block_size = row_block_size
          /\ matB.column_block_size = row_block_size
          /\ matB.n_rows = (IF last.arg[1] THEN n_columns ELSE n_rows))
        => (AllRejected /\ state = last.pre_state
            /\ \A p \in Procs : last.calls[p] = <<>>)
     /\ AllOk => \A p \in Procs : state[p] = "unusable" /\ matB.state[p] = "matrix"

\* a successful solve with the transpose of a non-square matrix on a grid
\* with an inactive process
C14_Witness ==
  /\ last.op = "least_squares"
  /\ AllOk
  /\ last.arg[1]
  /\ n_rows # n_columns
  /\ InactiveProcs # {}
  /\ state = All("unusable")
  /\ matB.state = All("matrix")

NormOps == {"l1_norm", "linfty_norm", "frobenius_norm"}

\* C15: a call of l1_norm, linfty_norm or frobenius_norm succeeds when the
\* state is matrix or inverse_matrix and is rejected in every other state; a
\* successful call uses the symmetric kernel (plansy) exactly when the
\* property is symmetric and the general kernel (plange) otherwise; the call
\* leaves state, property and the matrix entries as they were.
C15_Norms ==
  [][(steps' # steps /\ last'.op \in NormOps)
     => /\ UNCHANGED <<state, property, values>>
        /\ IF \A p \in Procs : state[p] \in {"matrix", "inverse_matrix"}
           THEN /\ \A p \in Procs : last'.outcome[p] = "ok"
                /\ \A p \in ActiveProcs :
                     last'.calls[p] = <<IF property[p] = "symmetric"
                                        THEN "plansy" ELSE "plange">>
           ELSE \A p \in Procs : last'.outcome[p] = "rejected" /\ last'.calls[p] = <<>>
    ]_vars

\* a norm of an inverted matrix whose property is not symmetric, on a grid
\* with an inactive process
C15_Witness ==
  /\ last.op \in NormOps
  /\ AllOk
  /\ last.pre_state = All("inverse_matrix")
  /\ last.pre_property # All("symmetric")
  /\ last.calls[0] = <<"plange">>
  /\ InactiveProcs # {}
  /\ res[0] # RZero

AddOps == {"add", "add_a_B", "Tadd", "copy_transposed"}

\* the global entries of the matrix under test and of the second matrix
GlobalA == Gather(This, values)
GlobalB == Gather(LayoutOf(matB), matB.values)

\* alpha * a + beta * b, where a is not read when alpha is zero
Combined(alpha, a, beta, b) ==
  RAdd(IF alpha = RZero THEN RZero ELSE RMul(alpha, a),
       IF beta = RZero THEN RZero ELSE RMul(beta, b))

\* the shapes and block sizes of the matrix and of op(B) agree, and both are
\* bound to the same grid
Addable(transpose_B) ==
  /\ matB.grid = ThisGrid
  /\ <<n_rows, n_columns, row_block_size, column_block_size>>
       = IF transpose_B
         THEN <<matB.n_columns, matB.n_rows, matB.column_block_size, matB.row_block_size>>
         ELSE <<matB.n_rows, matB.n_columns, matB.row_block_size, matB.column_block_size>>

\* the step is a call of an addition with the scalars alpha, beta and the
\* flag transpose_B: rejected with nothing changed unless addable; otherwise
\* every global entry (i,j) becomes alpha * A(i,j) + beta * op(B)(i,j), the
\* state becomes matrix on every process, the property and B stay
AddStep(alpha, beta, transpose_B) ==
  IF Addable(transpose_B)
  THEN /\ \A p \in Procs : last'.outcome[p] = "ok" /\ state'[p] = "matrix"
       /\ property' = property
       /\ matB' = matB
       /\ \A ij \in Idx(n_rows, n_columns) :
            Gather(This, values')[ij]
              = Combined(alpha, GlobalA[ij], beta,
                         IF transpose_B THEN GlobalB[<<ij[2], ij[1]>>] ELSE GlobalB[ij])
  ELSE /\ \A p \in Procs : last'.outcome[p] = "rejected"
       /\ UNCHANGED <<state, property, values, matB>>

\* C16: add(B, alpha, beta, transpose_B) replaces A by alpha*A + beta*op(B) at
\* every global entry and sets the state to matrix whatever it was, leaving
\* the property and B unchanged; it is rejected unless A and B are bound to
\* the same grid and the shapes and block sizes of A and op(B) agree.
\* add(a,B) makes A + a*B, Tadd(a,B) makes A + a*B^T, copy_transposed(B)
\* makes B^T.
C16_Add ==
  [][(steps' # steps /\ last'.op \in AddOps)
     => /\ last'.op = "add"
             => AddStep(last'.arg[1], last'.arg[2], last'.arg[3])
        /\ last'.op = "add_a_B" => AddStep(ROne, last'.arg[1], FALSE)
        /\ last'.op = "Tadd" => AddStep(ROne, last'.arg[1], TRUE)
        /\ last'.op = "copy_transposed" => AddStep(RZero, ROne, TRUE)
    ]_vars

\* a sum alpha*A + beta*B^T with alpha and beta other than 0 and 1, formed in
\* the state a factorization left, on a grid with two active processes
C16_Witness ==
  /\ last.op = "add"
  /\ AllOk
  /\ last.arg = <<Num(2), Num(2), TRUE>>
  /\ last.pre_state = All("cholesky")
  /\ state = All("matrix")
  /\ n_rows = 2
  /\ Cardinality(ActiveProcs) = 2

\* rows, columns, row block and column block of op(M), as a tuple
ShapeOfOp(transposed, rows, columns, row_block, column_block) ==
  IF transposed THEN <<columns, rows, column_block, row_block>>
  ELSE <<rows, columns, row_block, column_block>>

\* the conditions under which C17 says a product is accepted
Multipliable(transpose_A, transpose_B) ==
  LET opA == ShapeOfOp(transpose_A, n_rows, n_columns, row_block_size, column_block_size)
      opB == ShapeOfOp(transpose_B, matB.n_rows, matB.n_columns,
                       matB.row_block_size, matB.column_block_size)
  IN  /\ matB.grid = ThisGrid /\ matC.grid = ThisGrid
      /\ opA[2] = opB[1] /\ opA[1] = matC.n_rows /\ opB[2] = matC.n_columns
      /\ opA[4] = opB[3] /\ opA[3] = matC.row_block_size
      /\ opB[4] = matC.column_block_size

\* C17: mult(b, B, c, C, transpose_A, transpose_B) is accepted exactly when A,
\* B and C are bound to one grid and, for the flags given, the columns of
\* op(A) are the rows of op(B), the rows of op(A) the rows of C and the
\* columns of op(B) the columns of C, in number and in block size; a
\* rejected call calls no kernel and changes nothing; an accepted call
\* leaves C in state matrix and A and B as they were.
C17_Mult ==
  [][(steps' # steps /\ last'.op = "mult")
     => IF Multipliable(last'.arg[3], last'.arg[4])
        THEN /\ \A p \in Procs : last'.outcome[p] = "ok" /\ matC'.state[p] = "matrix"
             /\ UNCHANGED <<state, property, values, matB>>
        ELSE /\ \A p \in Procs : last'.outcome[p] = "rejected" /\ last'.calls[p] = <<>>
             /\ UNCHANGED <<state, property, values, matB, matC>>
    ]_vars

\* an accepted product of two transposed factors, with row and column block
\* sizes that differ, into a matrix that was not in state matrix
C17_Witness ==
  /\ last.op = "mult"
  /\ AllOk
  /\ last.arg[3] /\ last.arg[4]
  /\ row_block_size # column_block_size
  /\ matC.state = All("matrix")
  /\ matC.property = All("lower_triangular")

\* C18: copy_to(dest) between two matrices of the same global shape makes
\* every global entry of dest equal to that of the source; the local arrays
\* are copied without communication exactly when dest is bound to the same
\* grid and has the same two block sizes, and otherwise the matrix is
\* redistributed through a temporary context over the union of the two
\* communicators, which every process creates, uses and releases.
C18_CopyTo ==
  [][(/\ steps' # steps
      /\ last'.op = "copy_to_matrix"
      /\ n_rows = matB.n_rows /\ n_columns = matB.n_columns)
     => /\ \A p \in Procs : last'.outcome[p] = "ok"
        /\ \A ij \in Idx(n_rows, n_columns) :
             Gather(LayoutOf(matB'), matB'.values)[ij] = Gather(This, values)[ij]
        /\ IF /\ matB.grid = ThisGrid
              /\ matB.row_block_size = row_block_size
              /\ matB.column_block_size = column_block_size
           THEN \A p \in Procs : last'.calls[p] = <<>>
           ELSE \A p \in Procs :
                  last'.calls[p] = <<"Cblacs_gridinit", "pgemr2d", "Cblacs_gridexit">>
    ]_vars

\* a copy of distinct entries to a matrix on the same grid whose column
\* block size alone differs, with two active processes
C18_Witness ==
  /\ last.op = "copy_to_matrix"
  /\ AllOk
  /\ assigned = Fdistinct(n_rows, n_columns)
  /\ n_rows = 2 /\ n_columns = 2
  /\ matB.grid = ThisGrid
  /\ matB.row_block_size = row_block_size
  /\ matB.column_block_size # column_block_size
  /\ Cardinality(ActiveProcs) = 2
  /\ Gather(LayoutOf(matB), matB.values) = Gather(This, values)

\* the sub-block of the call recorded in r lies inside A and inside B
BlockInside(r) ==
  /\ r.arg[1][1] + r.arg[3][1] <= n_rows
  /\ r.arg[1][2] + r.arg[3][2] <= n_columns
  /\ r.arg[2][1] + r.arg[3][1] <= matB.n_rows
  /\ r.arg[2][2] + r.arg[3][2] <= matB.n_columns

\* C19: copy_to(B, offset_A, offset_B, submatrix_size) with a non-empty
\* sub-block inside A and B sets B(offset_B + (i,j)) = A(offset_A + (i,j))
\* for every (i,j) of the sub-block, leaves every other entry of B as it was
\* and sets the state of B to matrix; with a sub-block of zero rows or zero
\* columns it returns with the entries, state and property of B unchanged
\* and no temporary context created; a sub-block that is not inside A or not
\* inside B, or matrices on different communicators, are rejected.
C19_CopyBlock ==
  [][(steps' # steps /\ last'.op = "copy_to_block")
     => LET r == last'
            oa == r.arg[1]
            ob == r.arg[2]
            size == r.arg[3]
            A == Gather(This, values)
            B == Gather(LayoutOf(matB), matB.values)
            Bnew == Gather(LayoutOf(matB'), matB'.values)
        IN  IF size[1] = 0 \/ size[2] = 0
            THEN /\ matB' = matB
                 /\ \A p \in Procs : r.outcome[p] = "ok" /\ r.calls[p] = <<>>
            ELSE IF ~BlockInside(r) \/ matB.comm # ThisComm
            THEN /\ \A p \in Procs : r.outcome[p] = "rejected"
                 /\ matB' = matB
            ELSE /\ \A p \in Procs : r.outcome[p] = "ok" /\ matB'.state[p] = "matrix"
                 /\ \A ij \in Idx(matB.n_rows, matB.n_columns) :
                      Bnew[ij] = IF /\ ob[1] <= ij[1] /\ ij[1] < ob[1] + size[1]
                                    /\ ob[2] <= ij[2] /\ ij[2] < ob[2] + size[2]
                                 THEN A[<<oa[1] + ij[1] - ob[1], oa[2] + ij[2] - ob[2]>>]
                                 ELSE B[ij]
    ]_vars

\* the entry of the unstored half at ij as C20 gives it from the dense matrix
\* el itself: the mirrored entry in state inverse_matrix, zero otherwise
Reconstructed(el, ij, st) ==
  IF st = "inverse_matrix" THEN el[<<ij[2], ij[1]>>] ELSE RZero

\* C20: after copy_to(dense) of a matrix whose property is lower_triangular
\* (upper_triangular), on every process the strict upper (lower) half of
\* dense is reconstructed from the stored half, dense(i,j) = dense(j,i) in
\* state inverse_matrix and dense(i,j) = 0 in every other state, and the
\* stored half with the diagonal holds the distributed entries.
C20_MirrorFill ==
  (last.op = "copy_to_dense" /\ PropertyNow \in {"lower_triangular", "upper_triangular"})
  => \A p \in Procs : \A ij \in Idx(n_rows, n_columns) :
       LET unstored == IF property[p] = "lower_triangular"
                       THEN ij[2] > ij[1] ELSE ij[2] < ij[1]
       IN  dense[p].el[ij] = IF unstored
                             THEN Reconstructed(dense[p].el, ij, state[p])
                             ELSE Gather(This, values)[ij]

\* the dense matrix el of order n equals its transpose
SymmetricDense(el, n) == \A ij \in Idx(n, n) : el[ij] = el[<<ij[2], ij[1]>>]

\* the distributed matrix is square, holds symmetric entries and carries
\* the property lower_triangular when copy_to(dense) has just run
SymmetricHeldLower ==
  /\ last.op = "copy_to_dense"
  /\ n_rows = n_columns
  /\ PropertyNow = "lower_triangular"

\* C21 as stated: for a symmetric matrix held with property
\* lower_triangular, after copy_to(dense) the dense matrix is symmetric in
\* every state, inverted or not.
C21_AlwaysSymmetric ==
  (SymmetricHeldLower /\ SymmetricDense(Gather(This, values), n_rows))
  => \A p \in Procs : SymmetricDense(dense[p].el, n_rows)

\* C21 amended: for a matrix held with property lower_triangular, after
\* copy_to(dense) the dense matrix is symmetric when the state is
\* inverse_matrix; in every other state its strict upper half is zero.
C21_MirrorSymmetric ==
  SymmetricHeldLower
  => \A p \in Procs :
       IF state[p] = "inverse_matrix"
       THEN SymmetricDense(dense[p].el, n_rows)
       ELSE \A ij \in Idx(n_rows, n_columns) : ij[2] > ij[1] => dense[p].el[ij] = RZero

C21_Witness ==
  /\ SymmetricHeldLower
  /\ StateNow = "inverse_matrix"
  /\ n_rows = 2
  /\ dense[0].el[<<0, 1>>] # RZero
  /\ dense[0].el[<<0, 1>>] = dense[0].el[<<1, 0>>]


\* the constructor has just returned a new object of layout last.arg[1]
Built == last.op = "ScaLAPACKMatrix" /\ last.outcome = All("ok")

\* C22: the constructor fails when a row or column block size is 0 or
\* larger than the corresponding dimension; with valid block sizes every
\* active process gets its local extents from the layout (numroc) and a
\* buffer of n_local_rows * n_local_columns entries, every inactive process
\* gets n_local_rows = n_local_columns = -1, a descriptor of nine -1 and no
\* buffer, and the new matrix is in state matrix on every process.
C22_Constructor ==
  last.op = "ScaLAPACKMatrix" =>
    LET L == last.arg[1]
        invalid == \/ L.row_block_size = 0
                   \/ L.column_block_size = 0
                   \/ L.row_block_size > L.n_rows
                   \/ L.column_block_size > L.n_columns
    IN  /\ invalid <=> last.outcome = All("rejected")
        /\ ~invalid =>
             /\ last.outcome = All("ok")
             /\ This = L
             /\ \A p \in Procs :
                  LET mem == last.arg[2][p]
                  IN  /\ state[p] = "matrix"
                      /\ IF p < L.R * L.C
                         THEN /\ mem.n_local_rows =
                                   numroc(L.n_rows, L.row_block_size, p \div L.C, 0, L.R)
                              /\ mem.n_local_columns =
                                   numroc(L.n_columns, L.column_block_size, p % L.C, 0, L.C)
                              /\ mem.buffer = mem.n_local_rows * mem.n_local_columns
                              /\ TableSize(values[p]) = mem.buffer
                         ELSE /\ mem.n_local_rows = -1
                              /\ mem.n_local_columns = -1
                              /\ mem.descriptor = <<-1, -1, -1, -1, -1, -1, -1, -1, -1>>
                              /\ mem.buffer = 0
                              /\ TableSize(values[p]) = 0

\* a valid construction over a matrix that had been factored, with an
\* inactive process
C22_Witness ==
  /\ Built
  /\ last.pre_state[0] = "cholesky"
  /\ InactiveProcs # {}
  /\ ActiveProcs # {}

\* a construction stopped by a block size larger than the dimension
C22_WitnessRejected ==
  /\ last.op = "ScaLAPACKMatrix"
  /\ last.outcome = All("rejected")
  /\ last.arg[1].row_block_size > last.arg[1].n_rows


\* the call recorded in r was made in a state or with a property in which the
\* operation is not available
WrongState(r) ==
  \/ r.op = "compute_cholesky_factorization" /\ r.pre_state[0] # "matrix"
  \/ r.op = "invert" /\ r.pre_state[0] \notin {"matrix", "cholesky"}
  \/ r.op \in EigenOps /\ (r.pre_state[0] # "matrix" \/ r.pre_property[0] # "symmetric")

\* the call recorded in r was made with an argument or on a shape outside the
\* operation's precondition
WrongArgument(r) ==
  \/ r.op \in {"compute_cholesky_factorization", "invert"} /\ n_rows # n_columns
  \/ r.op = "eigenpairs_symmetric_by_index"
       /\ (r.arg[2][1] >= n_rows \/ r.arg[2][2] >= n_rows)
  \/ r.op = "eigenpairs_symmetric_by_value"
       /\ (IsJunk(r.arg[2][1]) \/ IsJunk(r.arg[2][2]))

\* the step fails on every process before anything is called or changed
FailsFirst ==
  /\ \A p \in Procs : last'.outcome[p] = "rejected" /\ last'.calls[p] = <<>>
  /\ UNCHANGED <<state, property, values, matB, matC>>

\* C23: an operation called with its precondition violated (wrong state,
\* wrong shape, out-of-range index limits, NaN value limits) fails on every
\* process before any kernel call or broadcast, and leaves the state, the
\* property and the entries of every operand unchanged.
C23_FailsFirst ==
  [][(steps' # steps /\ (WrongState(last') \/ WrongArgument(last'))) => FailsFirst]_vars


\* C24: when a kernel on the active sub-grid reports a non-zero status, every
\* process of the communicator, active or inactive, observes the failure of
\* that call: no process returns normally, with its state updated, while
\* another process raised the error.
C24_FailureEverywhere ==
  (\E p \in Procs : last.outcome[p] = "threw")
  => \A q \in Procs : last.outcome[q] = "threw"


\* C25: in every operation that returns a reduced quantity (the
\* eigendecompositions, compute_SVD, reciprocal_condition_number, the norms)
\* all processes enter the same broadcasts with the same element counts on
\* every path, also when the kernel reports an error: no process is left
\* blocked in a broadcast the others never enter, and the vectors received
\* have the length of the vectors sent.
C25_MatchingBroadcasts ==
  last.op \in (ScalarOps \cup VectorOps)
  => /\ \A p \in Procs : last.outcome[p] # "blocked"
     /\ AllOk => \A p, q \in Procs : Len(ev[p]) = Len(ev[q])


\* C26: in the parallel save and load paths the temporary matrix on the
\* 1 x P grid, with row block n_rows and column block NB, is constructible
\* for every n_columns >= 1 and P >= 1, and rank r holds one contiguous range
\* of global columns that starts at its hyperslab offset: its local column j
\* is global column offset(r) + j.
C26_ColumnBands ==
  (have_parallel_hdf5 /\ last.op \in {"save", "load"})
  => /\ BlockSizesValid(ParallelLayout)
     /\ \A r \in Procs :
          \A j \in 0 .. (n_local_columns(ParallelLayout, r) - 1) :
            global_column(ParallelLayout, r, j) = HyperslabOffset(ParallelLayout, r) + j


\* the positions in trace of the calls named
Positions(calls) == {i \in DOMAIN trace : trace[i].call \in calls}
ScalarRecords == {"H5Dwrite /state", "H5Dwrite /property"}

\* C27: in save_parallel the state and property records are written by
\* rank 0 alone, once each, and only after every process has written its
\* column band and closed the file; no payload write follows a scalar record.
C27_ScalarRecordsLast ==
  /\ \A i \in Positions(ScalarRecords) :
       /\ trace[i].rank = 0
       /\ \A q \in Procs : \E j \in Positions({"H5Fclose"}) : j < i /\ trace[j].rank = q
       /\ \A j \in Positions({"H5Dwrite /matrix", "H5Fclose"}) : j < i
  /\ \A c \in ScalarRecords : Cardinality(Positions({c})) <= 1
  /\ (\A p \in Procs : pc[p] = "done")
       => /\ \A c \in ScalarRecords : Cardinality(Positions({c})) = 1
          /\ \A q \in Procs : \E j \in Positions({"H5Dwrite /matrix"}) : trace[j].rank = q

\* three processes have finished and both records are in the file
C27_Witness ==
  /\ n_mpi_processes = 3
  /\ \A p \in Procs : pc[p] = "done"
  /\ Positions({"H5Dwrite /property"}) # {}


\* C28: every temporary resource a redistribution creates (the two groups,
\* the union group and its communicator, the temporary BLACS context) is
\* released when copy_to leaves, by return or by exception, so that no
\* process holds one open between redistributions.
C28_Released ==
  \A p \in Procs : pc[p].status \in {"returned", "threw"} => Open(p) = {}


\* the kernel invocations thread t has made, in order
Invocations(t) ==
  LET Invokes(e) == e.thread = t /\ e.call \in {"query", "compute"}
  IN SelectSeq(trace, Invokes)

\* C29: in the eigendecompositions, compute_SVD, least_squares and
\* reciprocal_condition_number an active process invokes the kernel first with
\* lwork = -1 and then, with work resized to the size the query returned, once
\* more with that size: a call that returns has made exactly these two
\* invocations; the status is checked after each, so an invocation that reports
\* an error is the last one of its call, which throws; an inactive process
\* invokes no kernel.
C29_TwoCallProtocol ==
  \A t \in Threads :
    pc[t].op \in TwoCallOperations =>
      LET K == Invocations(t)
      IN /\ ~Running(t) => K = <<>>
         /\ Len(K) <= 2
         /\ Len(K) >= 1 => K[1].call = "query" /\ K[1].lwork = -1
         /\ Len(K) = 2 => /\ K[2].call = "compute"
                          /\ K[1].info = 0
                          /\ K[2].lwork = K[1].out
                          /\ K[2].size = K[1].out
                          /\ K[2].kernel = K[1].kernel
         /\ (pc[t].status = "returned" /\ Running(t))
              => Len(K) = 2 /\ K[2].info = 0
         /\ \A i \in 1 .. Len(K) :
              K[i].info # 0 => i = Len(K) /\ pc[t].status \in {"throwing", "threw"}

\* both threads have returned from two-call operations on an active process,
\* each after a query and a computation
C29_Witness ==
  /\ \A t \in Threads :
       /\ pc[t].op \in TwoCallOperations
       /\ pc[t].status = "returned"
       /\ Len(Invocations(t)) = 2
  /\ pc[1].op # pc[2].op
  /\ \E i \in 1 .. Len(trace) : trace[i].call = "query" /\ trace[i].out = 3

\* the statements of thread t that read or resize work or iwork
Touches(e) == e.call \in {"resize", "query", "size", "compute"}

\* C30: under any interleaving of two threads calling workspace-using
\* operations on the same matrix object, work and iwork are read and resized
\* only by the thread that holds the mutex, so between the query of a call and
\* its computation no other call resizes the buffers and the computation finds
\* work at the size its own call gave it; and no thread reaches a
\* ScopedLock while it already holds the mutex.
C30_WorkspaceLocked ==
  /\ \A i \in 1 .. Len(trace) : Touches(trace[i]) => trace[i].held
  /\ \A i, j \in 1 .. Len(trace) :
       (/\ i < j
        /\ trace[i].thread = trace[j].thread
        /\ trace[i].call = "query"
        /\ trace[j].call = "compute")
       => \A k \in (i + 1) .. (j - 1) : trace[k].thread = trace[i].thread
  /\ \A i \in 1 .. Len(trace) :
       trace[i].call = "compute" => trace[i].size = trace[i].lwork
  /\ \A t \in Threads :
       (pc[t].status = "running" /\ Statement(t) \in {"resize", "query", "size", "compute"})
         => mutex = t
  /\ \A t \in Threads : Statement(t) = "lock" => mutex # t

\* one thread is between its query and its computation while the other waits
\* at its ScopedLock
C30_Witness ==
  \E t, u \in Threads :
    /\ t # u
    /\ Running(t)
    /\ Statement(t) \in {"size", "compute"}
    /\ mutex = t
    /\ Statement(u) = "lock"
    /\ pc[u].op \in NormOperations


\* the eigenvalues of diag(1, ..., n_rows) at the positions S, ascending
Chosen(S) == [j \in 1 .. Cardinality(S) |-> Num(KthOf(S, j))]
RejectedEverywhere == \A p \in Procs : last.outcome[p] = "rejected"
\* every kernel invocation of the call recorded in last was of kernel k
Invoked(k) ==
  \A p \in ActiveProcs :
    /\ last.calls[p] # <<>>
    /\ \A i \in 1 .. Len(last.calls[p]) : last.calls[p][i] = k

\* C31: eigenpairs_symmetric_by_index rejects a limit >= n_rows, takes the
\* limits as (min, max), and uses the all-eigenpairs kernel (psyev) exactly
\* when they are (0, n_rows-1), otherwise the subset kernel (psyevx) on the
\* positions min..max; eigenpairs_symmetric_by_value rejects a NaN limit and
\* uses the subset kernel on the values in (min, max] of the limits;
\* eigenpairs_symmetric given both an index range and a value range rejects
\* the call.
C31_Selection ==
  LET a == last.arg
  IN
  /\ last.op = "eigenpairs_symmetric_by_index" =>
       LET lo == Min(a[2][1], a[2][2])
           hi == Max(a[2][1], a[2][2])
       IN  /\ RejectedEverywhere <=> (a[2][1] >= n_rows \/ a[2][2] >= n_rows)
           /\ ~RejectedEverywhere =>
                Invoked(IF lo = 0 /\ hi = n_rows - 1 THEN "psyev" ELSE "psyevx")
           /\ AllOk => \A p \in Procs : ev[p] = Chosen((lo + 1) .. (hi + 1))
  /\ last.op = "eigenpairs_symmetric_by_value" =>
       LET nan == IsJunk(a[2][1]) \/ IsJunk(a[2][2])
           lo == IF RLess(a[2][2], a[2][1]) THEN a[2][2] ELSE a[2][1]
           hi == IF RLess(a[2][2], a[2][1]) THEN a[2][1] ELSE a[2][2]
       IN  /\ RejectedEverywhere <=> nan
           /\ ~RejectedEverywhere => Invoked("psyevx")
           /\ AllOk => \A p \in Procs :
                ev[p] = Chosen({k \in 1 .. n_rows :
                                  RLess(lo, Num(k)) /\ ~RLess(hi, Num(k))})
  /\ last.op = "eigenpairs_symmetric" =>
       LET use_indices == a[2][1] # invalid_unsigned_int /\ a[2][2] # invalid_unsigned_int
           use_values == ~IsJunk(a[3][1]) /\ ~IsJunk(a[3][2])
       IN  /\ RejectedEverywhere <=> (use_indices /\ use_values)
           /\ ~RejectedEverywhere =>
                Invoked(IF use_indices \/ use_values THEN "psyevx" ELSE "psyev")

\* a successful call by index on the largest matrix, with the limits given in
\* descending order and naming the upper part of the spectrum
C31_Witness ==
  /\ AllOk
  /\ n_rows = MaxEigenDim
  /\ last.op = "eigenpairs_symmetric_by_index"
  /\ last.arg[2][1] = n_rows - 1
  /\ last.arg[2][2] = 1
  /\ \A p \in Procs : Len(ev[p]) = n_rows - 1



\* the layouts of the two operands of a redistribution, source and destination
Operands == <<This, LayoutOf(matB)>>

\* C32: in both redistribution variants a process that is not a member of an
\* operand's process grid passes to pgemr2d, for that operand, a descriptor
\* whose context entry (the second) is -1 and a null data pointer; a process
\* that is a member passes the descriptor the operand's constructor built.
C32_Sentinel ==
  \A p \in Procs : \A i \in DOMAIN trace[p] :
    trace[p][i].call = "pgemr2d" =>
      \A k \in 1 .. 2 :
        LET passed == trace[p][i].arguments[k]
            L == Operands[k]
        IN  IF mpi_process_is_active(L, p)
            THEN passed.desc = descinit(L, blacs_context, lld(L, p))
            ELSE passed.desc[2] = -1 /\ passed.loc_vals = "nullptr"

\* the sub-block copy has returned on a process that is a member of the
\* source's grid but not of the destination's
C32_Witness ==
  \E p \in Procs :
    /\ pc[p].path = "copy_to block"
    /\ pc[p].status = "returned"
    /\ mpi_process_is_active(This, p)
    /\ ~mpi_process_is_active(LayoutOf(matB), p)
    /\ \E i \in DOMAIN trace[p] : trace[p][i].call = "pgemr2d"



\* C33: invert() invokes ppotri only on a buffer that holds a Cholesky
\* factor: the call found the matrix in state cholesky, or in state matrix
\* and factored it first; invert() in state inverse_matrix, eigenvalues or
\* unusable does not invoke the kernel.
C33_InvertsFactorOnly ==
  \A p \in Procs :
    (/\ last.op = "invert"
     /\ \E i \in DOMAIN last.calls[p] : last.calls[p][i] = "ppotri")
    => \/ last.pre_state[p] = "cholesky"
       \/ /\ last.pre_state[p] = "matrix"
          /\ last.calls[p] = <<"ppotrf", "ppotri">>



\* a per-process member has the same value on every process
Uniform(member) == \A p, q \in Procs : member[p] = member[q]
UniformObject(M) == M.present => Uniform(M.state) /\ Uniform(M.property)

\* C34: as long as every collective operation so far has completed without
\* error, state and property have the same value on every process of the
\* communicator, active or inactive, for the matrix and for the matrices it
\* was copied, added or multiplied into.
C34_UniformState ==
  ~Halted => /\ Uniform(state)
             /\ Uniform(property)
             /\ UniformObject(matB)
             /\ UniformObject(matC)


\* a factorization has succeeded on a grid that leaves a process inactive
C34_Witness ==
  /\ ~Halted
  /\ InactiveProcs # {}
  /\ last.op = "compute_cholesky_factorization"
  /\ AllOk
  /\ \A p \in Procs : state[p] = "cholesky" /\ property[p] = "lower_triangular"



\* C35: copy_to(dest) that is not stopped by the Asserts on the shape sets
\* dest.state and dest.property to the source's state and property on every
\* process, with and without redistribution, and leaves the source's
\* entries, state and property as they were.
C35_CopyStamps ==
  [][(/\ steps' # steps
      /\ last'.op = "copy_to_matrix"
      /\ \E p \in Procs : last'.outcome[p] # "rejected")
     => /\ \A p \in Procs : /\ matB'.state[p] = state[p]
                            /\ matB'.property[p] = property[p]
        /\ UNCHANGED <<state, property, values>>
    ]_vars

\* a factored matrix has been redistributed to a constructed matrix on
\* another grid, with a process inactive in the source's grid
C35_Witness ==
  /\ last.op = "copy_to_matrix"
  /\ AllOk
  /\ last.calls[0] # <<>>
  /\ InactiveProcs # {}
  /\ state = All("cholesky")
  /\ matB.state = All("cholesky")
  /\ matB.property = All("lower_triangular")

\* the same without redistribution
C35_WitnessDirect ==
  /\ last.op = "copy_to_matrix"
  /\ AllOk
  /\ last.calls[0] = <<>>
  /\ matB.state = All("cholesky")



\* C36: the result of copy_to(dense) depends on the distributed matrix alone:
\* whatever the dense argument held before on any process, active or
\* inactive, every process ends with the same dense matrix, the one the call
\* gives for an argument of zeros, whose stored part holds the distributed
\* entries.
C36_PriorIgnored ==
  last.op = "copy_to_dense" =>
    /\ \A p, q \in Procs : dense[p] = dense[q]
    /\ dense = CopiedDense(This, values, All(PriorDense("zero", n_rows, n_columns)),
                           property, state)



\* C37: for a matrix of any shape whose property is lower_triangular or
\* upper_triangular, the fill at the end of copy_to(dense) reads and writes
\* only entries (i,j) of the dense matrix, 0 <= i < n_rows and
\* 0 <= j < n_columns.
C37_FillInRange ==
  (last.op = "copy_to_dense" /\ PropertyNow \in {"lower_triangular", "upper_triangular"}) =>
    \A k \in 1 .. Len(trace) :
      WithinMatrix(n_rows, n_columns, trace[k].reads \cup trace[k].writes)



\* what the transfer owes the cell c of the new mesh, from the mesh and the
\* vector before the change: the cell's own value if it was active, its
\* parent's if the parent was refined, the strategy's value for its former
\* children if they were coarsened
Owed(c, pre, in) ==
  IF c \in pre THEN in[active_cell_index(pre, c)]
  ELSE IF parent(c) \in pre THEN in[active_cell_index(pre, parent(c))]
  ELSE coarsening_strategy([k \in 1 .. n_children_per_cell |->
                              in[active_cell_index(pre, child(c, k - 1))]])

Keys(container) == {record[1] : record \in container}
CoarsenFlagged == (triangulation.active \cap triangulation.coarsen_flag)
                    \ triangulation.refine_flag
Inconsistent(c) ==
  level(c) = 0
    \/ \E sibling \in children(parent(c)) :
         ~(sibling \in triangulation.active /\ sibling \in triangulation.coarsen_flag)
Ended(name) == Len(transfer.calls) > 0 /\ transfer.calls[Len(transfer.calls)] = name

\* C38: after prepare_for_coarsening_and_refinement, the execution of the
\* flags and unpack(in, out), every active cell of the new mesh has its out
\* entry written exactly once: with in[old index] if the cell persisted, with
\* its parent's value if the parent was refined, with
\* coarsening_strategy(values of the former children) if it is a coarsened
\* parent.  A prepare leaves only the records of the mesh it was called on,
\* and it fails when a coarsen-flagged cell has a sibling that is not active
\* and coarsen-flagged.
C38_CellDataTransfer ==
  /\ transfer.calls = <<"prepare", "execute", "unpack">> =>
       /\ transfer.outcome = "ok"
       /\ \A c \in triangulation.active :
            LET i == active_cell_index(triangulation.active, c)
            IN  /\ transfer.written[i] = 1
                /\ transfer.out[i] = Owed(c, transfer.pre, transfer.in)
  /\ (Ended("prepare") /\ transfer.outcome = "ok") =>
       /\ Keys(transfer.refined_cells_active_index)
            = triangulation.active \cap triangulation.refine_flag
       /\ Keys(transfer.coarsened_cells_active_index) = {parent(c) : c \in CoarsenFlagged}
       /\ Keys(transfer.persisting_cells_active_index)
            = triangulation.active \ (triangulation.refine_flag \cup triangulation.coarsen_flag)
       /\ \A record \in transfer.refined_cells_active_index
                          \cup transfer.persisting_cells_active_index :
            record[2] = active_cell_index(triangulation.active, record[1])
  /\ (Ended("prepare") /\ \E c \in CoarsenFlagged : Inconsistent(c)) =>
       transfer.outcome = "rejected"

\* an unpack after a change in which one cell persisted, one was refined and
\* two were coarsened, on a transfer object that had been prepared before
C38_Witness ==
  /\ transfer.calls = <<"prepare", "execute", "unpack">>
  /\ transfer.outcome = "ok"
  /\ transfer.persisting_cells_active_index # {}
  /\ transfer.refined_cells_active_index # {}
  /\ transfer.coarsened_cells_active_index # {}
  /\ transfer.in = Distinct(transfer.n_active_cells_pre)

====
